---- MODULE Spec2Model ----
(***************************************************************************)
(* A model of the Trad-Chem catalog: the JSON-backed record list, the     *)
(* three catalog classes of the repository (tradchem/tradchem.py, the     *)
(* TradChem class embedded in colab_simple_install.py, and the mock       *)
(* service of tradchem_llm/services/tradchem_service.py) and the query    *)
(* operations over the record list.                                       *)
(*                                                                         *)
(* Strings are sequences of one-character strings, so that lower(),       *)
(* substring tests and JSON escaping are computed, not assumed.           *)
(* A Python dict with optional keys is a TLA+ record whose DOMAIN holds   *)
(* the keys that are present.  The "ingredients" mapping is a sequence of *)
(* [name, detail] pairs in insertion order.                               *)
(***************************************************************************)
EXTENDS Integers, Sequences, FiniteSets, TLC

(***************************************************************************)
(* Bounds of the model.                                                    *)
(***************************************************************************)
MaxRecords == 3
MaxQueryLen == 2
MaxLimit == 2

(***************************************************************************)
(* Strings.                                                                *)
(***************************************************************************)
QueryChars == {"a", "B"}

\* str.lower() on one character
LowerChar(c) ==
    CASE c = "A" -> "a"
      [] c = "B" -> "b"
      [] OTHER -> c

\* str.lower()
lower(s) == [i \in 1..Len(s) |-> LowerChar(s[i])]

\* q and s are the same string
InStr_exact(q, s) == q = s

\* Python's  q in s  on strings: q occurs as a contiguous substring of s
InStr(q, s) ==
    \E i \in 0..(Len(s) - Len(q)) : SubSeq(s, i + 1, i + Len(q)) = q

\* all strings over alphabet cs of length at most n
StringsUpTo(cs, n) == UNION {[1..k -> cs] : k \in 0..n}

Queries == StringsUpTo(QueryChars, MaxQueryLen)

(***************************************************************************)
(* The records used as inputs.                                             *)
(***************************************************************************)
Curcumin == [name |-> <<"a", "B">>,
             detail |-> [smiles |-> <<"b", "b">>, molecular_weight |-> 12]]

Gingerol == [name |-> <<"b">>,
             detail |-> [formula |-> <<"A", "\"">>]]

Turmeric == [product_name |-> <<"A", "b">>,
             benefits |-> << <<"a", "B">>, <<"b", " ", "b">> >>,
             diseases |-> << <<"B", "a">> >>,
             chemical_composition |-> [ingredients |-> <<Curcumin>>],
             traditional_system |-> <<"A">>,
             geographic_origin |-> <<"B">>]

Ginger == [product_name |-> <<"b", "a">>,
           benefits |-> << <<"b", "a">> >>,
           diseases |-> << <<"a", "\\">>, <<"b">> >>,
           chemical_composition |-> [ingredients |-> <<Gingerol, Curcumin>>]]

\* the same product name as Turmeric up to letter case
TurmericLower == [product_name |-> <<"a", "b">>,
                  benefits |-> << <<"A">> >>,
                  diseases |-> <<>>,
                  chemical_composition |-> [ingredients |-> <<>>],
                  traditional_system |-> <<"B">>]

\* a record without the required field benefits
NoBenefits == [product_name |-> <<"B">>,
               diseases |-> << <<"a">> >>,
               chemical_composition |-> [ingredients |-> <<>>]]

RecordPool == {Turmeric, Ginger, TurmericLower, NoBenefits}

(***************************************************************************)
(* JSON text.  A document is a sequence of atoms: one-character strings,  *)
(* and the field names of the schema, which are written as one atom.      *)
(***************************************************************************)
StringFields == {"product_name", "traditional_system", "geographic_origin",
                 "smiles", "formula", "entry_id", "date_added"}
ListFields == {"benefits", "diseases"}
NumberFields == {"molecular_weight"}
FieldOrder == <<"product_name", "benefits", "diseases", "chemical_composition",
                "traditional_system", "geographic_origin", "entry_id",
                "date_added", "ingredients", "smiles", "molecular_weight",
                "formula">>
FieldNames == {FieldOrder[i] : i \in 1..Len(FieldOrder)}

Digits == <<"0", "1", "2", "3", "4", "5", "6", "7", "8", "9">>
DigitSet == {Digits[i] : i \in 1..10}
DigitVal(c) == (CHOOSE i \in 1..10 : Digits[i] = c) - 1
Whitespace == {" ", "\n"}

RECURSIVE Flatten(_)
\* concatenation of a sequence of texts
Flatten(ts) == IF ts = <<>> THEN <<>> ELSE Head(ts) \o Flatten(Tail(ts))

\* the character written as it is
EscapeChar_raw(c) == <<c>>

\* json.dump escapes the quote and the backslash inside a string
EscapeChar(c) ==
    IF c = "\"" THEN <<"\\", "\"">>
    ELSE IF c = "\\" THEN <<"\\", "\\">>
    ELSE <<c>>

DumpString(s) == <<"\"">> \o Flatten([i \in 1..Len(s) |-> EscapeChar(s[i])]) \o <<"\"">>

RECURSIVE DumpNumber(_)
DumpNumber(n) ==
    IF n < 10 THEN <<Digits[n + 1]>>
    ELSE DumpNumber(n \div 10) \o <<Digits[(n % 10) + 1]>>

\* items of an array or object, written one per line (indent=4)
DumpItems(open, items, close) ==
    IF items = <<>> THEN <<open, close>>
    ELSE <<open>>
         \o Flatten([i \in 1..Len(items) |->
                 (IF i = 1 THEN <<>> ELSE <<",">>) \o <<"\n", " ">> \o items[i]])
         \o <<"\n", close>>

PresentFields(r) == SelectSeq(FieldOrder, LAMBDA f : f \in DOMAIN r)

RECURSIVE DumpValue(_, _), DumpRecord(_)
DumpValue(field, v) ==
    IF field \in StringFields THEN DumpString(v)
    ELSE IF field \in ListFields
        THEN DumpItems("[", [i \in 1..Len(v) |-> DumpString(v[i])], "]")
    ELSE IF field \in NumberFields THEN DumpNumber(v)
    ELSE IF field = "ingredients"
        THEN DumpItems("{", [i \in 1..Len(v) |->
                 DumpString(v[i].name) \o <<":", " ">> \o DumpRecord(v[i].detail)], "}")
    ELSE DumpRecord(v)

DumpRecord(r) ==
    LET fs == PresentFields(r)
    IN DumpItems("{", [i \in 1..Len(fs) |->
           <<"\"", fs[i], "\"", ":", " ">> \o DumpValue(fs[i], r[fs[i]])], "}")

\* json.dump(data, f, indent=4, ensure_ascii=False) of a list of records
json_dump(records) ==
    DumpItems("[", [i \in 1..Len(records) |-> DumpRecord(records[i])], "]")

(***************************************************************************)
(* json.load: a recursive-descent reading of the text into tagged values  *)
(* ([t |-> "str" | "num" | "list" | "dict", v |-> ...]); a text that is   *)
(* not JSON makes json.load raise (ok = FALSE).                            *)
(***************************************************************************)
ParseFail == [ok |-> FALSE, val |-> <<>>, pos |-> 0]

RECURSIVE SkipWs(_, _)
SkipWs(t, i) ==
    IF i <= Len(t) /\ t[i] \in Whitespace THEN SkipWs(t, i + 1) ELSE i

RECURSIVE ParseString(_, _, _)
\* i is the position after the opening quote
ParseString(t, i, acc) ==
    IF i > Len(t) THEN ParseFail
    ELSE IF t[i] = "\"" THEN [ok |-> TRUE, val |-> acc, pos |-> i + 1]
    ELSE IF t[i] = "\\"
        THEN IF i + 1 > Len(t) THEN ParseFail
             ELSE ParseString(t, i + 2, Append(acc, t[i + 1]))
    ELSE ParseString(t, i + 1, Append(acc, t[i]))

RECURSIVE ParseNumber(_, _, _)
ParseNumber(t, i, acc) ==
    IF i <= Len(t) /\ t[i] \in DigitSet
    THEN ParseNumber(t, i + 1, acc * 10 + DigitVal(t[i]))
    ELSE [ok |-> TRUE, val |-> acc, pos |-> i]

RECURSIVE ParseValue(_, _), ParseArrayItems(_, _, _), ParseObjectItems(_, _, _)
ParseValue(t, i0) ==
    LET i == SkipWs(t, i0)
    IN IF i > Len(t) THEN ParseFail
       ELSE IF t[i] = "\""
           THEN LET r == ParseString(t, i + 1, <<>>)
                IN IF r.ok THEN [ok |-> TRUE, val |-> [t |-> "str", v |-> r.val], pos |-> r.pos]
                   ELSE ParseFail
       ELSE IF t[i] \in DigitSet
           THEN LET r == ParseNumber(t, i, 0)
                IN [ok |-> TRUE, val |-> [t |-> "num", v |-> r.val], pos |-> r.pos]
       ELSE IF t[i] = "["
           THEN LET j == SkipWs(t, i + 1)
                IN IF j <= Len(t) /\ t[j] = "]"
                   THEN [ok |-> TRUE, val |-> [t |-> "list", v |-> <<>>], pos |-> j + 1]
                   ELSE ParseArrayItems(t, j, <<>>)
       ELSE IF t[i] = "{"
           THEN LET j == SkipWs(t, i + 1)
                IN IF j <= Len(t) /\ t[j] = "}"
                   THEN [ok |-> TRUE, val |-> [t |-> "dict", v |-> <<>>], pos |-> j + 1]
                   ELSE ParseObjectItems(t, j, <<>>)
       ELSE ParseFail

\* i is the position of the next item of the array
ParseArrayItems(t, i, acc) ==
    LET r == ParseValue(t, i)
    IN IF ~r.ok THEN ParseFail
       ELSE LET j == SkipWs(t, r.pos)
                acc2 == Append(acc, r.val)
            IN IF j > Len(t) THEN ParseFail
               ELSE IF t[j] = "," THEN ParseArrayItems(t, j + 1, acc2)
               ELSE IF t[j] = "]"
                   THEN [ok |-> TRUE, val |-> [t |-> "list", v |-> acc2], pos |-> j + 1]
               ELSE ParseFail

\* i is the position of the next key of the object
ParseObjectItems(t, i0, acc) ==
    LET i == SkipWs(t, i0)
    IN IF i > Len(t) \/ t[i] # "\"" THEN ParseFail
       ELSE LET k == ParseString(t, i + 1, <<>>)
            IN IF ~k.ok THEN ParseFail
               ELSE LET c == SkipWs(t, k.pos)
                    IN IF c > Len(t) \/ t[c] # ":" THEN ParseFail
                       ELSE LET r == ParseValue(t, c + 1)
                            IN IF ~r.ok THEN ParseFail
                               ELSE LET j == SkipWs(t, r.pos)
                                        acc2 == Append(acc, <<k.val, r.val>>)
                                    IN IF j > Len(t) THEN ParseFail
                                       ELSE IF t[j] = "," THEN ParseObjectItems(t, j + 1, acc2)
                                       ELSE IF t[j] = "}"
                                           THEN [ok |-> TRUE, val |-> [t |-> "dict", v |-> acc2],
                                                 pos |-> j + 1]
                                       ELSE ParseFail

IsFieldKey(k) == Len(k) = 1 /\ k[1] \in FieldNames

RECURSIVE FromJson(_)
\* the Python value of a tagged value: a dict keyed by field names is a
\* record, a dict keyed by ingredient names is the sequence of its items
FromJson(x) ==
    IF x.t = "str" \/ x.t = "num" THEN x.v
    ELSE IF x.t = "list" THEN [i \in 1..Len(x.v) |-> FromJson(x.v[i])]
    ELSE IF \A i \in 1..Len(x.v) : IsFieldKey(x.v[i][1])
        THEN LET keys == {x.v[i][1][1] : i \in 1..Len(x.v)}
                 \* a repeated key keeps its last value
                 at(f) == CHOOSE i \in 1..Len(x.v) :
                              /\ x.v[i][1][1] = f
                              /\ \A j \in (i + 1)..Len(x.v) : x.v[j][1][1] # f
             IN [f \in keys |-> FromJson(x.v[at(f)][2])]
    ELSE [i \in 1..Len(x.v) |-> [name |-> x.v[i][1], detail |-> FromJson(x.v[i][2])]]

\* json.load(f): ok = FALSE stands for the exception json.load raises
json_load(t) ==
    LET r == ParseValue(t, 1)
    IN IF r.ok /\ SkipWs(t, r.pos) > Len(t)
       THEN [ok |-> TRUE, val |-> FromJson(r.val), isList |-> r.val.t = "list"]
       ELSE [ok |-> FALSE, val |-> <<>>, isList |-> FALSE]

(***************************************************************************)
(* The state.                                                              *)
(*   impl  which catalog class the process uses                            *)
(*   pc    "Unloaded" before construction, then "Loaded", "LoadFailed"     *)
(*         (the read failed and the list is empty) or "Raised" (the        *)
(*         constructor raised and there is no store)                       *)
(*   doc   the backing document                                            *)
(*   data  self.data, the in-memory record list                            *)
(*   file  the file written by export_data                                 *)
(*   call  the last call and its arguments, with the list before the call  *)
(*   ret   what the last call returned or raised                           *)
(*   proc  the two processes that hold the same document, each with its    *)
(*         own catalog object: what it has done, its record list, the      *)
(*         record it added and what add and export returned                *)
(***************************************************************************)
VARIABLES impl, pc, doc, data, file, call, ret, proc

vars == <<impl, pc, doc, data, file, call, ret, proc>>

Impls == {"TradChem", "Embedded", "Mock"}

RECURSIVE SeqsUpTo(_, _)
\* all sequences over S of length at most n
SeqsUpTo(S, n) ==
    IF n = 0 THEN {<<>>}
    ELSE LET shorter == SeqsUpTo(S, n - 1)
         IN shorter \cup {Append(l, x) : l \in {k \in shorter : Len(k) = n - 1}, x \in S}

RecordLists == SeqsUpTo(RecordPool, MaxRecords)

MissingDoc == [exists |-> FALSE, ext |-> ".json", text |-> <<>>]
CorruptDoc == [exists |-> TRUE, ext |-> ".json", text |-> <<"[", "{">>]
TextDoc == [exists |-> TRUE, ext |-> ".txt", text |-> json_dump(<<Turmeric>>)]
JsonDocs == {[exists |-> TRUE, ext |-> ".json", text |-> json_dump(l)] : l \in RecordLists}
DocPool == {MissingDoc, CorruptDoc, TextDoc} \cup JsonDocs

NoCall == [op |-> "none"]
NoRet == [raised |-> "none", val |-> <<>>]
Returned(v) == [raised |-> "none", val |-> v]
Raised(e) == [raised |-> e, val |-> <<>>]

Procs == {1, 2}

NotStarted == [pc |-> "Unloaded", data |-> <<>>, arg |-> <<>>, add |-> NoRet, export |-> NoRet]

Init ==
    /\ impl \in Impls
    /\ pc = "Unloaded"
    /\ doc \in DocPool
    /\ impl = "Mock" => doc = MissingDoc
    /\ data = <<>>
    /\ file = [exists |-> FALSE, ext |-> ".json", text |-> <<>>, saved |-> <<>>]
    /\ call = NoCall
    /\ ret = NoRet
    /\ proc = [p \in Procs |-> NotStarted]

Constructed == pc \in {"Loaded", "LoadFailed"}

\* the caller issues one call at a time, and takes its result before the next
Idle == Constructed /\ call = NoCall

\* the caller has taken the result of the last call (demo.py: each result is
\* printed before the next call is made)
ReturnToCaller ==
    /\ Constructed /\ call # NoCall
    /\ call' = NoCall
    /\ ret' = NoRet
    /\ UNCHANGED <<impl, pc, doc, data, file, proc>>

(***************************************************************************)
(* Loading.                                                                *)
(***************************************************************************)
\* TradChem._load_json_data: a decode error is logged and gives []
load_json_data(d) ==
    LET r == json_load(d.text)
    IN IF r.ok THEN [failed |-> FALSE, val |-> IF r.isList THEN r.val ELSE <<r.val>>]
       ELSE [failed |-> TRUE, val |-> <<>>]

\* TradChem.load_data: raises for a missing file and an unknown extension
load_data(d) ==
    IF ~d.exists THEN [raised |-> "FileNotFoundError", failed |-> TRUE, val |-> <<>>]
    ELSE IF d.ext = ".json"
        THEN [raised |-> "none"] @@ load_json_data(d)
    ELSE [raised |-> "ValueError", failed |-> TRUE, val |-> <<>>]

\* TradChem.load_database
load_database(d) == load_data(d)

\* TradChem.__init__ (tradchem.py): self.data = self.load_database()
TradChem_init ==
    /\ impl = "TradChem" /\ pc = "Unloaded"
    /\ LET r == load_database(doc)
       IN /\ pc' = IF r.raised # "none" THEN "Raised"
                   ELSE IF r.failed THEN "LoadFailed" ELSE "Loaded"
          /\ data' = r.val
          /\ ret' = IF r.raised # "none" THEN Raised(r.raised) ELSE NoRet
    /\ call' = [op |-> "init"]
    /\ UNCHANGED <<impl, doc, file, proc>>

\* the embedded TradChem.load_database: a missing file and any exception give []
Embedded_load_database(d) ==
    IF d.exists
    THEN LET r == json_load(d.text)
         IN IF r.ok THEN [failed |-> FALSE, val |-> r.val]
            ELSE [failed |-> TRUE, val |-> <<>>]
    ELSE [failed |-> TRUE, val |-> <<>>]

\* the embedded TradChem.__init__
Embedded_init ==
    /\ impl = "Embedded" /\ pc = "Unloaded"
    /\ LET r == Embedded_load_database(doc)
       IN /\ pc' = IF r.failed THEN "LoadFailed" ELSE "Loaded"
          /\ data' = r.val
    /\ call' = [op |-> "init"]
    /\ ret' = NoRet
    /\ UNCHANGED <<impl, doc, file, proc>>

\* TradChemService.__init__ without the library: self.tradchem = None
Mock_init ==
    /\ impl = "Mock" /\ pc = "Unloaded"
    /\ pc' = "Loaded"
    /\ call' = [op |-> "init"]
    /\ ret' = NoRet
    /\ UNCHANGED <<impl, doc, data, file, proc>>

(***************************************************************************)
(* add_medicine.                                                           *)
(***************************************************************************)
\* TradChem.add_medicine (tradchem.py): returns True and does nothing else
TradChem_add_medicine(medicine_entry) ==
    /\ impl = "TradChem" /\ Idle
    /\ call' = [op |-> "add", arg |-> medicine_entry, pre |-> data]
    /\ ret' = Returned(TRUE)
    /\ UNCHANGED <<impl, pc, doc, data, file, proc>>

\* the embedded TradChem.add_medicine: appends whatever it is given
Embedded_add_medicine(medicine_entry) ==
    /\ impl = "Embedded" /\ Idle
    /\ Len(data) < MaxRecords
    /\ data' = Append(data, medicine_entry)
    /\ call' = [op |-> "add", arg |-> medicine_entry, pre |-> data]
    /\ ret' = Returned(TRUE)
    /\ UNCHANGED <<impl, pc, doc, file, proc>>

\* TradChemService._mock_add_medicine: logs and returns True
Mock_add_medicine(medicine_data) ==
    /\ impl = "Mock" /\ Idle
    /\ call' = [op |-> "add", arg |-> medicine_data, pre |-> data]
    /\ ret' = Returned(TRUE)
    /\ UNCHANGED <<impl, pc, doc, data, file, proc>>

(***************************************************************************)
(* search_medicines.                                                       *)
(***************************************************************************)
DefaultLimit == 10

SearchTypes == {"name", "benefit", "disease", "ingredient", "colour"}

\* the limit argument: absent, or a number
LimitArgs == {[given |-> FALSE, n |-> 0]} \cup {[given |-> TRUE, n |-> k] : k \in 0..MaxLimit}

\* TradChem.search_medicines (tradchem.py): returns []
TradChem_search_medicines(d, query, search_type, limit) == <<>>

\* the test of one record in the loop of the embedded search_medicines
Embedded_matches(medicine, query_lower, search_type) ==
    IF search_type = "name" /\ "product_name" \in DOMAIN medicine
    THEN InStr(query_lower, lower(medicine.product_name))
    ELSE IF search_type = "benefit" /\ "benefits" \in DOMAIN medicine
    THEN \E i \in 1..Len(medicine.benefits) :
             InStr(query_lower, lower(medicine.benefits[i]))
    ELSE FALSE

RECURSIVE Embedded_scan(_, _, _, _, _, _)
\* the loop of the embedded search_medicines: after each record, stop as
\* soon as len(results) >= limit
Embedded_scan(d, i, results, query_lower, search_type, limit) ==
    IF i > Len(d) THEN results
    ELSE LET r2 == IF Embedded_matches(d[i], query_lower, search_type)
                   THEN Append(results, d[i]) ELSE results
         IN IF Len(r2) >= limit THEN r2
            ELSE Embedded_scan(d, i + 1, r2, query_lower, search_type, limit)

\* the embedded TradChem.search_medicines
Embedded_search_medicines(d, query, search_type, limit) ==
    IF d = <<>> THEN <<>>
    ELSE Embedded_scan(d, 1, <<>>, lower(query), search_type, limit)

\* the records the mock service searches
mock_medicines == <<Ginger, Turmeric>>

Mock_matches(medicine, query_lower, search_type) ==
    \/ search_type = "name" /\ InStr(query_lower, lower(medicine.product_name))
    \/ /\ search_type = "benefit"
       /\ \E i \in 1..Len(medicine.benefits) : InStr(query_lower, lower(medicine.benefits[i]))
    \/ /\ search_type = "disease"
       /\ \E i \in 1..Len(medicine.diseases) : InStr(query_lower, lower(medicine.diseases[i]))
    \/ /\ search_type = "ingredient"
       /\ \E i \in 1..Len(medicine.chemical_composition.ingredients) :
              InStr(query_lower, lower(medicine.chemical_composition.ingredients[i].name))

\* TradChemService._mock_search_medicines
mock_search_medicines(query, search_type) ==
    SelectSeq(mock_medicines, LAMBDA m : Mock_matches(m, lower(query), search_type))

\* search_medicines of the class in use
class_search(query, search_type, limit) ==
    IF impl = "TradChem" THEN TradChem_search_medicines(data, query, search_type, limit)
    ELSE Embedded_search_medicines(data, query, search_type, limit)

\* tc.search_medicines(query, search_type[, limit]) on the catalog class
SearchMedicines(query, search_type, limit) ==
    /\ impl \in {"TradChem", "Embedded"} /\ Idle
    /\ call' = [op |-> "search", query |-> query, search_type |-> search_type,
                limit |-> limit, pre |-> data]
    /\ ret' = Returned(class_search(query, search_type,
                                    IF limit.given THEN limit.n ELSE DefaultLimit))
    /\ UNCHANGED <<impl, pc, doc, data, file, proc>>

\* TradChemService.search_medicines: the class with its default limit, or the mock
service_search(query, search_type) ==
    IF impl = "Mock" THEN mock_search_medicines(query, search_type)
    ELSE class_search(query, search_type, DefaultLimit)

\* results[:n]
Take(l, n) == SubSeq(l, 1, IF n < Len(l) THEN n ELSE Len(l))

\* APIHandler.handle_search: truncates only when limit is truthy
handle_search(query, search_type, limit) ==
    LET results == service_search(query, search_type)
    IN IF limit.given /\ limit.n # 0 THEN Take(results, limit.n) ELSE results

HandleSearch(query, search_type, limit) ==
    /\ Idle
    /\ call' = [op |-> "handle_search", query |-> query, search_type |-> search_type,
                limit |-> limit, pre |-> data]
    /\ ret' = Returned(handle_search(query, search_type, limit))
    /\ UNCHANGED <<impl, pc, doc, data, file, proc>>

\* Optional[Dict]: None, or the record that was found
None == [found |-> FALSE]
Some(medicine) == [found |-> TRUE, medicine |-> medicine]

\* TradChemService._mock_get_medicine_by_name: the first record of the
\* substring search by name
mock_get_medicine_by_name(name) ==
    LET medicines == mock_search_medicines(name, "name")
    IN IF medicines # <<>> THEN Some(medicines[1]) ELSE None

\* TradChemService.get_medicine_by_name: with the library it calls
\* self.tradchem.get_medicine_by_name, a method that neither catalog class
\* defines
get_medicine_by_name(name) ==
    IF impl = "Mock" THEN Returned(mock_get_medicine_by_name(name))
    ELSE Raised("AttributeError")

GetMedicineByName(name) ==
    /\ Idle
    /\ call' = [op |-> "get_medicine_by_name", name |-> name, pre |-> data]
    /\ ret' = get_medicine_by_name(name)
    /\ UNCHANGED <<impl, pc, doc, data, file, proc>>

(***************************************************************************)
(* filter_data, sort_data, statistical_analysis (tradchem.py).             *)
(***************************************************************************)
MaxCriteria == 2

FilterKeys == {"system", "region", "benefit", "disease", "ingredient", "colour"}
FilterValues == {<<"a">>, <<"B">>}

\* **filters: a sequence of <<key, value>> pairs with distinct keys
Criteria ==
    {c \in SeqsUpTo(FilterKeys \X FilterValues, MaxCriteria) :
        \A i, j \in 1..Len(c) : i # j => c[i][1] # c[j][1]}

\* m.get(field, default)
Get(m, field, default) == IF field \in DOMAIN m THEN m[field] ELSE default

\* the filter value compared as typed, without .lower()
filter_keeps_cased(m, filter_key, filter_value) ==
    IF filter_key = "system"
    THEN lower(Get(m, "traditional_system", <<>>)) = filter_value
    ELSE IF filter_key = "region"
    THEN lower(Get(m, "geographic_origin", <<>>)) = filter_value
    ELSE IF filter_key = "benefit"
    THEN \E i \in 1..Len(Get(m, "benefits", <<>>)) :
             InStr(filter_value, lower(m.benefits[i]))
    ELSE IF filter_key = "disease"
    THEN \E i \in 1..Len(Get(m, "diseases", <<>>)) :
             InStr(filter_value, lower(m.diseases[i]))
    ELSE IF filter_key = "ingredient"
    THEN /\ "chemical_composition" \in DOMAIN m
         /\ "ingredients" \in DOMAIN m.chemical_composition
         /\ \E i \in 1..Len(m.chemical_composition.ingredients) :
                InStr(filter_value, lower(m.chemical_composition.ingredients[i].name))
    ELSE TRUE

\* the condition of one list comprehension of filter_data
filter_keeps(m, filter_key, filter_value) ==
    IF filter_key = "system"
    THEN lower(Get(m, "traditional_system", <<>>)) = lower(filter_value)
    ELSE IF filter_key = "region"
    THEN lower(Get(m, "geographic_origin", <<>>)) = lower(filter_value)
    ELSE IF filter_key = "benefit"
    THEN \E i \in 1..Len(Get(m, "benefits", <<>>)) :
             InStr(lower(filter_value), lower(m.benefits[i]))
    ELSE IF filter_key = "disease"
    THEN \E i \in 1..Len(Get(m, "diseases", <<>>)) :
             InStr(lower(filter_value), lower(m.diseases[i]))
    ELSE IF filter_key = "ingredient"
    THEN /\ "chemical_composition" \in DOMAIN m
         /\ "ingredients" \in DOMAIN m.chemical_composition
         /\ \E i \in 1..Len(m.chemical_composition.ingredients) :
                InStr(lower(filter_value), lower(m.chemical_composition.ingredients[i].name))
    ELSE TRUE

RECURSIVE filter_data(_, _)
\* TradChem.filter_data: one pass per criterion; an unknown key is skipped
filter_data(medicines, filters) ==
    IF filters = <<>> THEN medicines
    ELSE filter_data(
             SelectSeq(medicines, LAMBDA m : filter_keeps(m, Head(filters)[1], Head(filters)[2])),
             Tail(filters))

\* only the last criterion is applied
FilterData_last(filters) ==
    /\ impl = "TradChem" /\ Idle
    /\ call' = [op |-> "filter", filters |-> filters, pre |-> data]
    /\ ret' = Returned(IF filters = <<>> THEN data
                       ELSE filter_data(data, <<filters[Len(filters)]>>))
    /\ UNCHANGED <<impl, pc, doc, data, file, proc>>

\* tc.filter_data(tc.data, **filters)
FilterData(filters) ==
    /\ impl = "TradChem" /\ Idle
    /\ call' = [op |-> "filter", filters |-> filters, pre |-> data]
    /\ ret' = Returned(filter_data(data, filters))
    /\ UNCHANGED <<impl, pc, doc, data, file, proc>>

\* the code point of a character
Ord(c) ==
    CASE c = " " -> 32 [] c = "\"" -> 34 [] c = "A" -> 65 [] c = "B" -> 66
      [] c = "\\" -> 92 [] c = "a" -> 97 [] c = "b" -> 98 [] OTHER -> 127

\* a < b on Python strings
StrLess(a, b) ==
    \/ /\ Len(a) < Len(b)
       /\ \A i \in 1..Len(a) : a[i] = b[i]
    \/ \E k \in 1..Len(a) :
          /\ k <= Len(b)
          /\ \A i \in 1..(k - 1) : a[i] = b[i]
          /\ Ord(a[k]) < Ord(b[k])

RECURSIVE SumSeq(_)
SumSeq(ns) == IF ns = <<>> THEN 0 ELSE Head(ns) + SumSeq(Tail(ns))

\* get_avg_molecular_weight in sort_data, as the fraction num / den
get_avg_molecular_weight(medicine) ==
    IF /\ "chemical_composition" \in DOMAIN medicine
       /\ "ingredients" \in DOMAIN medicine.chemical_composition
    THEN LET ings == medicine.chemical_composition.ingredients
             with == SelectSeq(ings, LAMBDA g : "molecular_weight" \in DOMAIN g.detail)
             weights == [i \in 1..Len(with) |-> with[i].detail.molecular_weight]
         IN IF weights # <<>> THEN [num |-> SumSeq(weights), den |-> Len(weights)]
            ELSE [num |-> 0, den |-> 1]
    ELSE [num |-> 0, den |-> 1]

SortKeys == {"name", "system", "region", "molecular_weight", "colour"}

\* key(x) < key(y) for the key function sort_data passes to sorted()
KeyLess(by, x, y) ==
    IF by = "name" THEN StrLess(Get(x, "product_name", <<>>), Get(y, "product_name", <<>>))
    ELSE IF by = "system"
    THEN StrLess(Get(x, "traditional_system", <<>>), Get(y, "traditional_system", <<>>))
    ELSE IF by = "region"
    THEN StrLess(Get(x, "geographic_origin", <<>>), Get(y, "geographic_origin", <<>>))
    ELSE LET a == get_avg_molecular_weight(x)
             b == get_avg_molecular_weight(y)
         IN a.num * b.den < b.num * a.den

\* x goes before the first element that must not precede it, equal keys included
Insert_before_equal(l, x, by, reverse) ==
    LET after(e) == IF reverse THEN ~KeyLess(by, x, e) ELSE ~KeyLess(by, e, x)
        firstAfter == IF \E i \in 1..Len(l) : after(l[i])
                      THEN CHOOSE i \in 1..Len(l) :
                               after(l[i]) /\ \A j \in 1..(i - 1) : ~after(l[j])
                      ELSE Len(l) + 1
    IN SubSeq(l, 1, firstAfter - 1) \o <<x>> \o SubSeq(l, firstAfter, Len(l))

\* x goes before the first element that must follow it
Insert(l, x, by, reverse) ==
    LET after(e) == IF reverse THEN KeyLess(by, e, x) ELSE KeyLess(by, x, e)
        firstAfter == IF \E i \in 1..Len(l) : after(l[i])
                      THEN CHOOSE i \in 1..Len(l) :
                               after(l[i]) /\ \A j \in 1..(i - 1) : ~after(l[j])
                      ELSE Len(l) + 1
    IN SubSeq(l, 1, firstAfter - 1) \o <<x>> \o SubSeq(l, firstAfter, Len(l))

RECURSIVE SortedFrom(_, _, _, _, _)
SortedFrom(l, i, acc, by, reverse) ==
    IF i > Len(l) THEN acc
    ELSE SortedFrom(l, i + 1, Insert(acc, l[i], by, reverse), by, reverse)

\* sorted(medicines, key=..., reverse=reverse): a new list, stable for equal
\* keys also when reverse is set
sorted(l, by, reverse) == SortedFrom(l, 1, <<>>, by, reverse)

\* the reverse flag is not passed on to sorted()
sort_data_ascending(medicines, by, reverse) ==
    IF by \in {"name", "system", "region", "molecular_weight"}
    THEN sorted(medicines, by, FALSE)
    ELSE medicines

\* TradChem.sort_data: an unknown key returns the list as it is
sort_data(medicines, by, reverse) ==
    IF by \in {"name", "system", "region", "molecular_weight"}
    THEN sorted(medicines, by, reverse)
    ELSE medicines

\* list.sort() on self.data instead of sorted()
SortData_inplace(by, reverse) ==
    /\ impl = "TradChem" /\ Idle
    /\ call' = [op |-> "sort", by |-> by, reverse |-> reverse, pre |-> data]
    /\ data' = sort_data(data, by, reverse)
    /\ ret' = Returned(data')
    /\ UNCHANGED <<impl, pc, doc, file, proc>>

\* tc.sort_data(tc.data, by, reverse)
SortData(by, reverse) ==
    /\ impl = "TradChem" /\ Idle
    /\ call' = [op |-> "sort", by |-> by, reverse |-> reverse, pre |-> data]
    /\ ret' = Returned(sort_data(data, by, reverse))
    /\ UNCHANGED <<impl, pc, doc, data, file, proc>>

Unknown == <<"U", "n", "k", "n", "o", "w", "n">>

\* the number of positions of l that hold x
Count(l, x) == Cardinality({i \in 1..Len(l) : l[i] = x})

\* dict(Counter(l))
Counter(l) == [x \in {l[i] : i \in 1..Len(l)} |-> Count(l, x)]

\* TradChem.statistical_analysis; the average is the fraction num / den
statistical_analysis(medicines) ==
    IF medicines = <<>> THEN [empty |-> TRUE]
    ELSE LET n == Len(medicines)
             systems == [i \in 1..n |-> Get(medicines[i], "traditional_system", Unknown)]
             regions == [i \in 1..n |-> Get(medicines[i], "geographic_origin", Unknown)]
             all_benefits == Flatten([i \in 1..n |-> Get(medicines[i], "benefits", <<>>)])
             all_diseases == Flatten([i \in 1..n |-> Get(medicines[i], "diseases", <<>>)])
             smiles_of(m) ==
                 IF /\ "chemical_composition" \in DOMAIN m
                    /\ "ingredients" \in DOMAIN m.chemical_composition
                 THEN Len(SelectSeq(m.chemical_composition.ingredients,
                                    LAMBDA g : "smiles" \in DOMAIN g.detail))
                 ELSE 0
         IN [empty |-> FALSE,
             total_medicines |-> n,
             unique_systems |-> Cardinality({systems[i] : i \in 1..n}),
             unique_regions |-> Cardinality({regions[i] : i \in 1..n}),
             avg_benefits_per_medicine |-> [num |-> Len(all_benefits), den |-> n],
             compounds_with_smiles |-> SumSeq([i \in 1..n |-> smiles_of(medicines[i])]),
             system_distribution |-> Counter(systems),
             region_distribution |-> Counter(regions),
             benefit_frequency |-> Counter(all_benefits),
             disease_frequency |-> Counter(all_diseases)]

\* TradChem.get_statistics
GetStatistics ==
    /\ impl = "TradChem" /\ Idle
    /\ call' = [op |-> "statistics", pre |-> data]
    /\ ret' = Returned(statistical_analysis(data))
    /\ UNCHANGED <<impl, pc, doc, data, file, proc>>

\* the embedded TradChem.statistical_analysis: a record without a
\* traditional_system or geographic_origin is left out of the distributions
Embedded_statistical_analysis(medicines) ==
    LET n == Len(medicines)
        withSystem == SelectSeq(medicines, LAMBDA m : "traditional_system" \in DOMAIN m)
        withRegion == SelectSeq(medicines, LAMBDA m : "geographic_origin" \in DOMAIN m)
        systems == [i \in 1..Len(withSystem) |-> withSystem[i].traditional_system]
        regions == [i \in 1..Len(withRegion) |-> withRegion[i].geographic_origin]
        total_benefits ==
            SumSeq([i \in 1..n |-> IF "benefits" \in DOMAIN medicines[i]
                                   THEN Len(medicines[i].benefits) ELSE 0])
        smiles_of(m) ==
            IF /\ "chemical_composition" \in DOMAIN m
               /\ "ingredients" \in DOMAIN m.chemical_composition
            THEN Len(SelectSeq(m.chemical_composition.ingredients,
                               LAMBDA g : "smiles" \in DOMAIN g.detail))
            ELSE 0
    IN [empty |-> FALSE,
        total_medicines |-> n,
        unique_systems |-> Cardinality({systems[i] : i \in 1..Len(systems)}),
        unique_regions |-> Cardinality({regions[i] : i \in 1..Len(regions)}),
        avg_benefits_per_medicine |->
            IF n > 0 THEN [num |-> total_benefits, den |-> n] ELSE [num |-> 0, den |-> 1],
        compounds_with_smiles |-> SumSeq([i \in 1..n |-> smiles_of(medicines[i])]),
        system_distribution |-> Counter(systems),
        region_distribution |-> Counter(regions)]

\* tc.statistical_analysis(tc.data) on the embedded class
Embedded_StatisticalAnalysis ==
    /\ impl = "Embedded" /\ Idle
    /\ call' = [op |-> "statistics", pre |-> data]
    /\ ret' = Returned(Embedded_statistical_analysis(data))
    /\ UNCHANGED <<impl, pc, doc, data, file, proc>>

\* list_medicines: the product names in catalog order
list_medicines(d) == [i \in 1..Len(d) |-> d[i].product_name]

ListMedicines ==
    /\ impl = "TradChem" /\ Idle
    /\ call' = [op |-> "list", pre |-> data]
    /\ ret' = Returned(list_medicines(data))
    /\ UNCHANGED <<impl, pc, doc, data, file, proc>>

(***************************************************************************)
(* export_data and load_data (tradchem.py).                                *)
(***************************************************************************)
ExportFormats == {"json", "yaml"}

\* TradChem.export_data: every exception, the ValueError of an unknown
\* format included, is logged and turned into False.  saved records the
\* list the text was written from.
ExportData(medicines, format, io_ok) ==
    /\ impl = "TradChem" /\ Idle
    /\ call' = [op |-> "export", format |-> format, pre |-> data]
    /\ IF format = "json" /\ io_ok
       THEN /\ file' = [exists |-> TRUE, ext |-> ".json", text |-> json_dump(medicines),
                        saved |-> medicines]
            /\ ret' = Returned(TRUE)
       ELSE /\ file' = file
            /\ ret' = Returned(FALSE)
    /\ UNCHANGED <<impl, pc, doc, data, proc>>

\* tc.load_data(path) on the exported file
LoadData ==
    /\ impl = "TradChem" /\ Idle
    /\ call' = [op |-> "load_data", pre |-> data]
    /\ LET r == load_data(file)
       IN ret' = IF r.raised # "none" THEN Raised(r.raised) ELSE Returned(r.val)
    /\ UNCHANGED <<impl, pc, doc, data, file, proc>>

(***************************************************************************)
(* Validation: validate_medicine_data (utils/data_utils.py) and the       *)
(* validate_data of the two classes.  The argument of a validation is a   *)
(* record together with the Python type of each of its values, so that a  *)
(* value of the wrong shape can be passed.                                 *)
(***************************************************************************)
Piperine == [name |-> <<"B">>, detail |-> [smiles |-> <<"a">>]]

\* a record with two ingredients that declare a SMILES string
Trikatu == [product_name |-> <<"a">>,
            benefits |-> << <<"b">> >>,
            diseases |-> <<>>,
            chemical_composition |-> [ingredients |-> <<Curcumin, Piperine>>]]

\* the dict r without the keys in S
Without(r, S) == [f \in (DOMAIN r) \ S |-> r[f]]

\* the Python types of the values of a record that follows the schema
SchemaTypes == [product_name |-> "str", benefits |-> "list", diseases |-> "list",
                chemical_composition |-> "dict", ingredients |-> "dict"]

\* one value of another type
WrongTypes == {[SchemaTypes EXCEPT !.product_name = "int"],
               [SchemaTypes EXCEPT !.benefits = "str"],
               [SchemaTypes EXCEPT !.diseases = "NoneType"],
               [SchemaTypes EXCEPT !.chemical_composition = "str"],
               [SchemaTypes EXCEPT !.chemical_composition = "list"],
               [SchemaTypes EXCEPT !.chemical_composition = "int"],
               [SchemaTypes EXCEPT !.ingredients = "list"]}

TopLevelFields == {"product_name", "benefits", "diseases", "chemical_composition"}

\* records that lack any set of the top-level fields
WellTyped ==
    {[rec |-> Without(r, S), pytype |-> SchemaTypes] :
         r \in {Turmeric, Ginger, Trikatu}, S \in SUBSET TopLevelFields}

\* records with a value of the wrong shape
WrongTyped ==
    {[rec |-> Without(Turmeric, S), pytype |-> t] :
         S \in {{}, {"benefits"}, {"diseases"}}, t \in WrongTypes}

ValidationInputs == WellTyped \cup WrongTyped

\* the SMILES strings of the ingredients above; the chemistry library
\* (RDKit, or the fallback pattern) may reject any of them
SmilesPool == {Curcumin.detail.smiles, Piperine.detail.smiles}

\* required_fields of the embedded validate_data
required_fields_embedded == <<"product_name", "benefits", "diseases">>

\* the list without chemical_composition
required_fields_no_composition == <<"product_name", "benefits", "diseases">>

\* required_fields of validate_medicine_data
required_fields == <<"product_name", "benefits", "diseases", "chemical_composition">>

\* the errors of the loop over required_fields
missing_errors(medicine) ==
    LET missing == SelectSeq(required_fields, LAMBDA f : f \notin DOMAIN medicine.rec)
    IN [i \in 1..Len(missing) |-> [kind |-> "missing", field |-> missing[i]]]

\* the errors of the four isinstance tests, in their order
type_errors(medicine) ==
    LET tested == <<"product_name", "benefits", "diseases", "chemical_composition">>
        wrong == SelectSeq(tested, LAMBDA f : /\ f \in DOMAIN medicine.rec
                                              /\ medicine.pytype[f] # SchemaTypes[f])
    IN [i \in 1..Len(wrong) |-> [kind |-> "type", field |-> wrong[i]]]

\* the SMILES loop.  "ingredients" in medicine["chemical_composition"] is a
\* key test on a dict, a substring test on a str, a membership test on a list
\* and a TypeError on an int or None; .items() on ingredients that is not a
\* dict is an AttributeError.
smiles_warnings(medicine, rejected) ==
    LET m == medicine.rec
        t == medicine.pytype
        none == [raised |-> "none", warnings |-> <<>>]
    IN IF "chemical_composition" \notin DOMAIN m THEN none
       ELSE IF t.chemical_composition \in {"int", "NoneType"}
       THEN [raised |-> "TypeError", warnings |-> <<>>]
       ELSE IF t.chemical_composition # "dict" THEN none
       ELSE IF "ingredients" \notin DOMAIN m.chemical_composition THEN none
       ELSE IF t.ingredients # "dict"
       THEN [raised |-> "AttributeError", warnings |-> <<>>]
       ELSE LET bad == SelectSeq(m.chemical_composition.ingredients,
                                 LAMBDA g : /\ "smiles" \in DOMAIN g.detail
                                            /\ g.detail.smiles \in rejected)
            IN [raised |-> "none",
                warnings |-> [i \in 1..Len(bad) |->
                                 [ingredient |-> bad[i].name, smiles |-> bad[i].detail.smiles]]]

\* a rejected SMILES string also clears valid
validate_medicine_data_strict(medicine, rejected) ==
    LET errors == missing_errors(medicine) \o type_errors(medicine)
        s == smiles_warnings(medicine, rejected)
    IN IF s.raised # "none" THEN Raised(s.raised)
       ELSE Returned([valid |-> Len(errors) = 0 /\ Len(s.warnings) = 0,
                      errors |-> errors, warnings |-> s.warnings])

\* validate_medicine_data: valid is cleared with every error that is appended
validate_medicine_data(medicine, rejected) ==
    LET errors == missing_errors(medicine) \o type_errors(medicine)
        s == smiles_warnings(medicine, rejected)
    IN IF s.raised # "none" THEN Raised(s.raised)
       ELSE Returned([valid |-> Len(errors) = 0,
                      errors |-> errors, warnings |-> s.warnings])

\* data_utils.validate_medicine_data(medicine); rejected is the set of SMILES
\* strings for which validate_smiles answers False
ValidateMedicineData(medicine, rejected) ==
    /\ Idle
    /\ call' = [op |-> "validate", arg |-> medicine, rejected |-> rejected, pre |-> data]
    /\ ret' = validate_medicine_data(medicine, rejected)
    /\ UNCHANGED <<impl, pc, doc, data, file, proc>>

\* the lists given to validate_data
ValidateDataPool ==
    {[rec |-> Turmeric, pytype |-> SchemaTypes],
     [rec |-> Without(Turmeric, {"chemical_composition"}), pytype |-> SchemaTypes],
     [rec |-> Without(Turmeric, {"benefits"}), pytype |-> SchemaTypes],
     [rec |-> Turmeric, pytype |-> [SchemaTypes EXCEPT !.benefits = "str"]]}

ValidateDataLists == SeqsUpTo(ValidateDataPool, MaxRecords)

\* TradChem.validate_data (tradchem.py): line 143 dedents to a column that no
\* enclosing block has, so the module is rejected with an IndentationError
\* and the method cannot be called
TradChem_ValidateData(medicines) ==
    /\ impl = "TradChem" /\ Idle
    /\ call' = [op |-> "validate_data", arg |-> medicines, pre |-> data]
    /\ ret' = Raised("IndentationError")
    /\ UNCHANGED <<impl, pc, doc, data, file, proc>>

\* the embedded TradChem.validate_data: three required fields, no type test
Embedded_validate_data(medicines) ==
    LET n == Len(medicines)
        missing(i) == SelectSeq(required_fields_embedded,
                                LAMBDA f : f \notin DOMAIN medicines[i].rec)
        valid == Cardinality({i \in 1..n : Len(missing(i)) = 0})
    IN [total_medicines |-> n,
        valid_medicines |-> valid,
        invalid_medicines |-> n - valid,
        data_quality_score |-> IF n > 0 THEN [num |-> valid, den |-> n]
                               ELSE [num |-> 0, den |-> 1],
        errors |-> Flatten([i \in 1..n |->
                      [k \in 1..Len(missing(i)) |-> [medicine |-> i - 1, field |-> missing(i)[k]]]])]

Embedded_ValidateData(medicines) ==
    /\ impl = "Embedded" /\ Idle
    /\ call' = [op |-> "validate_data", arg |-> medicines, pre |-> data]
    /\ ret' = Returned(Embedded_validate_data(medicines))
    /\ UNCHANGED <<impl, pc, doc, data, file, proc>>

Next ==
    \/ TradChem_init
    \/ Embedded_init
    \/ Mock_init
    \/ ReturnToCaller
    \/ \E r \in RecordPool : TradChem_add_medicine(r)
    \/ \E r \in RecordPool : Embedded_add_medicine(r)
    \/ \E r \in RecordPool : Mock_add_medicine(r)
    \/ \E q \in Queries, t \in SearchTypes, l \in LimitArgs : SearchMedicines(q, t, l)
    \/ \E q \in Queries, t \in SearchTypes, l \in LimitArgs : HandleSearch(q, t, l)
    \/ \E name \in Queries : GetMedicineByName(name)
    \/ \E c \in Criteria : FilterData(c)
    \/ \E by \in SortKeys, reverse \in BOOLEAN : SortData(by, reverse)
    \/ GetStatistics
    \/ Embedded_StatisticalAnalysis
    \/ ListMedicines
    \/ \E f \in ExportFormats, io_ok \in BOOLEAN : ExportData(data, f, io_ok)
    \/ LoadData

Spec == Init /\ [][Next]_vars

(***************************************************************************)
(* The round trip of export_data and load_data, over every record list.   *)
(***************************************************************************)
InitRoundTrip == Init /\ impl = "TradChem" /\ doc = CorruptDoc

NextRoundTrip ==
    \/ TradChem_init
    \/ ReturnToCaller
    \/ \E l \in RecordLists, f \in ExportFormats, io_ok \in BOOLEAN : ExportData(l, f, io_ok)
    \/ LoadData

SpecRoundTrip == InitRoundTrip /\ [][NextRoundTrip]_vars

(***************************************************************************)
(* Validation of every input of ValidationInputs and ValidateDataLists.   *)
(***************************************************************************)
InitValidate == Init /\ impl \in {"TradChem", "Embedded"} /\ doc = CorruptDoc

NextValidate ==
    \/ TradChem_init
    \/ Embedded_init
    \/ ReturnToCaller
    \/ \E m \in ValidationInputs, rejected \in SUBSET SmilesPool :
           ValidateMedicineData(m, rejected)
    \/ \E l \in ValidateDataLists : TradChem_ValidateData(l)
    \/ \E l \in ValidateDataLists : Embedded_ValidateData(l)

SpecValidate == InitValidate /\ [][NextValidate]_vars

(***************************************************************************)
(* Cleaning: TradChem.clean_data (tradchem.py) and clean_medicine_data    *)
(* (utils/data_utils.py).  A benefits / diseases value of Python type str *)
(* is held as its string.  Both functions start from medicine.copy(), a   *)
(* shallow copy: the chemical_composition of the copy is the dict of the  *)
(* argument, so what the SMILES loop writes is written into the argument. *)
(***************************************************************************)
RECURSIVE LStrip(_)
\* str.lstrip()
LStrip(s) == IF s # <<>> /\ Head(s) \in Whitespace THEN LStrip(Tail(s)) ELSE s

RECURSIVE RStrip(_)
\* str.rstrip()
RStrip(s) ==
    IF s # <<>> /\ s[Len(s)] \in Whitespace THEN RStrip(SubSeq(s, 1, Len(s) - 1)) ELSE s

\* str.strip()
strip(s) == RStrip(LStrip(s))

RECURSIVE split(_, _)
\* s.split(sep) for a separator of one character: "".split(",") is [""]
split(s, sep) ==
    IF \E i \in 1..Len(s) : s[i] = sep
    THEN LET i == CHOOSE k \in 1..Len(s) : s[k] = sep /\ \A j \in 1..(k - 1) : s[j] # sep
         IN <<SubSeq(s, 1, i - 1)>> \o split(SubSeq(s, i + 1, Len(s)), sep)
    ELSE <<s>>

\* [b.strip() for b in value.split(',')]
split_and_strip(value) ==
    LET pieces == split(value, ",") IN [i \in 1..Len(pieces) |-> strip(pieces[i])]

\* [b.strip() for b in value.split(",") if b.strip()]
split_and_strip_nonempty(value) ==
    SelectSeq(split_and_strip(value), LAMBDA b : b # <<>>)

\* smiles_utils.canonicalize_smiles without RDKit: smiles.strip()
canonicalize_smiles(smiles) == strip(smiles)

\* the SMILES loop of both functions, on the ingredients dict shared by the
\* copy and the argument; rejected is the set of SMILES strings for which
\* validate_smiles answers False.  clean_medicine_data assigns the canonical
\* string only when it is not empty.
clean_ingredients(ingredients, rejected, assign_empty) ==
    [i \in 1..Len(ingredients) |->
        IF /\ "smiles" \in DOMAIN ingredients[i].detail
           /\ ingredients[i].detail.smiles \notin rejected
           /\ (assign_empty \/ canonicalize_smiles(ingredients[i].detail.smiles) # <<>>)
        THEN [ingredients[i] EXCEPT !.detail.smiles = canonicalize_smiles(@)]
        ELSE ingredients[i]]

\* the SMILES loop is entered: chemical_composition is a dict with ingredients
has_ingredients(medicine) ==
    /\ "chemical_composition" \in DOMAIN medicine.rec
    /\ medicine.pytype.chemical_composition = "dict"
    /\ "ingredients" \in DOMAIN medicine.rec.chemical_composition

\* .items() on ingredients that is not a dict is an AttributeError
clean_raises(medicine) == has_ingredients(medicine) /\ medicine.pytype.ingredients # "dict"

\* chemical_composition after the SMILES loop
clean_composition(medicine, rejected, assign_empty) ==
    IF has_ingredients(medicine)
    THEN [medicine.rec.chemical_composition EXCEPT
              !.ingredients = clean_ingredients(@, rejected, assign_empty)]
    ELSE medicine.rec.chemical_composition

\* the benefits / diseases value of the copy after "Ensure lists are
\* properly formatted"
clean_list(medicine, field, keep_empty) ==
    IF medicine.pytype[field] = "str"
    THEN IF keep_empty THEN split_and_strip(medicine.rec[field])
         ELSE split_and_strip_nonempty(medicine.rec[field])
    ELSE IF medicine.pytype[field] = "list" THEN medicine.rec[field]
    ELSE <<>>

\* the copy that the function returns
cleaned(medicine, rejected, keep_empty, assign_empty) ==
    [rec |-> [f \in DOMAIN medicine.rec |->
                 IF f \in {"product_name", "scientific_name", "description"}
                 THEN strip(medicine.rec[f])
                 ELSE IF f \in {"benefits", "diseases"}
                 THEN clean_list(medicine, f, keep_empty)
                 ELSE IF f = "chemical_composition"
                 THEN clean_composition(medicine, rejected, assign_empty)
                 ELSE medicine.rec[f]],
     pytype |-> [medicine.pytype EXCEPT
                    !.benefits = IF "benefits" \in DOMAIN medicine.rec THEN "list" ELSE @,
                    !.diseases = IF "diseases" \in DOMAIN medicine.rec THEN "list" ELSE @]]

\* the argument after the call: the top-level keys are those of the
\* argument, the shared chemical_composition is as the loop left it
argument_after(medicine, rejected, assign_empty) ==
    [medicine EXCEPT
        !.rec = [f \in DOMAIN medicine.rec |->
                    IF f = "chemical_composition"
                    THEN clean_composition(medicine, rejected, assign_empty)
                    ELSE medicine.rec[f]]]

\* data_utils.clean_medicine_data
clean_medicine_data(medicine, rejected) ==
    IF clean_raises(medicine)
    THEN [raised |-> "AttributeError", val |-> <<>>, arg_after |-> medicine]
    ELSE [raised |-> "none",
          val |-> cleaned(medicine, rejected, FALSE, FALSE),
          arg_after |-> argument_after(medicine, rejected, FALSE)]

\* TradChem.clean_data: the records before the first one that raises have
\* been cleaned when the exception leaves the loop
clean_data(medicines, rejected) ==
    LET n == Len(medicines)
        raising == {i \in 1..n : clean_raises(medicines[i])}
        stop == IF raising = {} THEN n + 1
                ELSE CHOOSE i \in raising : \A j \in raising : i <= j
    IN [raised |-> IF raising = {} THEN "none" ELSE "AttributeError",
        val |-> IF raising = {}
                THEN [i \in 1..n |-> cleaned(medicines[i], rejected, TRUE, TRUE)]
                ELSE <<>>,
        arg_after |-> [i \in 1..n |->
                          IF i < stop THEN argument_after(medicines[i], rejected, TRUE)
                          ELSE medicines[i]]]

\* the values given as benefits and diseases, with their Python types
ListValues ==
    {[t |-> "str", v |-> <<"a", ",", " ", "b">>],
     [t |-> "str", v |-> <<"a", ",", ",", "b">>],
     [t |-> "list", v |-> << <<"a">>, <<" ", "b">> >>],
     [t |-> "NoneType", v |-> <<>>],
     [t |-> "absent", v |-> <<>>]}

\* an ingredient whose SMILES string has blanks around it
Padded == [name |-> <<"c">>, detail |-> [smiles |-> <<" ", "C", "1", " ">>]]

CompositionValues ==
    {[t |-> "dict", v |-> [ingredients |-> <<Padded, Gingerol>>]],
     [t |-> "dict", v |-> [ingredients |-> <<Curcumin>>]],
     [t |-> "list", v |-> [ingredients |-> <<Padded>>]],
     [t |-> "absent", v |-> [ingredients |-> <<>>]]}

\* the record with the given values; a value of type "absent" is left out
CleanInput(name, b, d, c) ==
    [rec |-> Without([product_name |-> name, benefits |-> b.v, diseases |-> d.v,
                      chemical_composition |-> c.v],
                     {f \in {"benefits"} : b.t = "absent"}
                         \cup {f \in {"diseases"} : d.t = "absent"}
                         \cup {f \in {"chemical_composition"} : c.t = "absent"}),
     pytype |-> [SchemaTypes EXCEPT
                    !.benefits = IF b.t = "absent" THEN @ ELSE b.t,
                    !.diseases = IF d.t = "absent" THEN @ ELSE d.t,
                    !.ingredients = IF c.t = "absent" THEN @ ELSE c.t]]

CleanInputs ==
    {CleanInput(name, b, d, c) :
         name \in {<<" ", "a", " ">>, <<"a">>},
         b \in ListValues,
         d \in {x \in ListValues : x.v \in {<<"a", ",", " ", "b">>, << <<"a">>, <<" ", "b">> >>}},
         c \in CompositionValues}

CleanListPool ==
    {CleanInput(<<" ", "a", " ">>, b, b, c) :
         b \in {x \in ListValues : x.t = "str"},
         c \in {x \in CompositionValues : Padded \in {x.v.ingredients[i] : i \in 1..Len(x.v.ingredients)}
                                             /\ x.t \in {"dict", "list"}}}

CleanLists == SeqsUpTo(CleanListPool, MaxRecords)

\* the SMILES strings validate_smiles may reject while cleaning
CleanSmilesPool == {Padded.detail.smiles}

\* data_utils.clean_medicine_data(medicine); arg_after is the argument as
\* the caller finds it after the call
CleanMedicineData(medicine, rejected) ==
    /\ Idle
    /\ LET r == clean_medicine_data(medicine, rejected)
       IN /\ call' = [op |-> "clean_medicine_data", arg |-> <<medicine>>,
                      arg_after |-> <<r.arg_after>>, rejected |-> rejected, pre |-> data]
          /\ ret' = IF r.raised # "none" THEN Raised(r.raised) ELSE Returned(<<r.val>>)
    /\ UNCHANGED <<impl, pc, doc, data, file, proc>>

\* tc.clean_data(medicines)
CleanData(medicines, rejected) ==
    /\ impl = "TradChem" /\ Idle
    /\ LET r == clean_data(medicines, rejected)
       IN /\ call' = [op |-> "clean_data", arg |-> medicines,
                      arg_after |-> r.arg_after, rejected |-> rejected, pre |-> data]
          /\ ret' = IF r.raised # "none" THEN Raised(r.raised) ELSE Returned(r.val)
    /\ UNCHANGED <<impl, pc, doc, data, file, proc>>

(***************************************************************************)
(* Cleaning of every input of CleanInputs and CleanLists.                 *)
(***************************************************************************)
InitClean == Init /\ impl \in {"TradChem", "Embedded"} /\ doc = CorruptDoc

NextClean ==
    \/ TradChem_init
    \/ Embedded_init
    \/ ReturnToCaller
    \/ \E m \in CleanInputs, rejected \in SUBSET CleanSmilesPool :
           CleanMedicineData(m, rejected)
    \/ \E l \in CleanLists, rejected \in SUBSET CleanSmilesPool : CleanData(l, rejected)

SpecClean == InitClean /\ [][NextClean]_vars

(***************************************************************************)
(* CSV: DataExporter.to_csv and DataImporter.from_csv (data_utils.py).    *)
(* The document is the sequence of the rows of the data frame; pandas     *)
(* writes an empty string as an empty cell and reads an empty cell as NaN.*)
(***************************************************************************)
RECURSIVE join(_, _)
\* sep.join(l)
join(sep, l) ==
    IF l = <<>> THEN <<>>
    ELSE IF Len(l) = 1 THEN l[1]
    ELSE l[1] \o sep \o join(sep, Tail(l))

\* an ingredient in the shape from_csv gives it
Withanolide == [name |-> <<"b">>, detail |-> [primary_smiles |-> <<"a">>]]

\* a record as from_csv returns it
Ashwagandha == [product_name |-> <<"B", "a">>,
                benefits |-> << <<"a">> >>,
                diseases |-> << <<"b">> >>,
                chemical_composition |-> [ingredients |-> <<Withanolide>>]]

\* a record with a benefit that holds the delimiter
Triphala == [product_name |-> <<"a">>,
             benefits |-> << <<"a", ";", " ", "b">> >>,
             diseases |-> << <<"b">> >>,
             chemical_composition |-> [ingredients |-> <<>>]]

CsvPool == {Turmeric, Ginger, TurmericLower, Ashwagandha, Triphala}

CsvLists == SeqsUpTo(CsvPool, MaxRecords)

\* medicine.get("chemical_composition", {}).get("ingredients", {})
ingredients_of(medicine) ==
    IF /\ "chemical_composition" \in DOMAIN medicine
       /\ "ingredients" \in DOMAIN medicine.chemical_composition
    THEN medicine.chemical_composition.ingredients
    ELSE <<>>

\* the smiles cell takes list(comp.values())[0].get(...) of every ingredient
\* that has "primary_smiles": the first value of comp is a string or a
\* number, which has no get, so the row raises AttributeError
to_csv_row_raises(medicine) ==
    \E i \in 1..Len(ingredients_of(medicine)) :
        "primary_smiles" \in DOMAIN ingredients_of(medicine)[i].detail

\* the row to_csv builds for one medicine
to_csv_row(medicine) ==
    LET ings == ingredients_of(medicine)
    IN [product_name |-> Get(medicine, "product_name", <<>>),
        benefits |-> join(<<";", " ">>, Get(medicine, "benefits", <<>>)),
        diseases |-> join(<<";", " ">>, Get(medicine, "diseases", <<>>)),
        ingredients |-> join(<<";", " ">>, [i \in 1..Len(ings) |-> ings[i].name]),
        smiles |-> <<>>,
        entry_id |-> Get(medicine, "entry_id", <<>>),
        date_added |-> Get(medicine, "date_added", <<>>)]

\* DataExporter.to_csv: any exception is logged and gives False
to_csv(medicines) ==
    IF \E i \in 1..Len(medicines) : to_csv_row_raises(medicines[i])
    THEN [ok |-> FALSE, rows |-> <<>>]
    ELSE [ok |-> TRUE, rows |-> [i \in 1..Len(medicines) |-> to_csv_row(medicines[i])]]

\* str(row.get(column, "")) of a cell read by pandas: the empty cell is NaN
read_cell(cell) == IF cell = <<>> THEN <<"n", "a", "n">> ELSE cell

\* [b.strip() for b in cell.split(";") if b.strip()]
split_cells(cell) ==
    SelectSeq([i \in 1..Len(split(cell, ";")) |-> strip(split(cell, ";")[i])],
              LAMBDA b : b # <<>>)

\* ingredients[name] = detail on the dict kept as a sequence of pairs
DictSet(ingredients, name, detail) ==
    IF \E i \in 1..Len(ingredients) : ingredients[i].name = name
    THEN [i \in 1..Len(ingredients) |->
             IF ingredients[i].name = name THEN [name |-> name, detail |-> detail]
             ELSE ingredients[i]]
    ELSE Append(ingredients, [name |-> name, detail |-> detail])

RECURSIVE parse_ingredients(_, _, _, _)
\* the loop over enumerate(ingredients) of from_csv
parse_ingredients(names, smiles_list, i, acc) ==
    IF i > Len(names) THEN acc
    ELSE LET ingredient == strip(names[i])
             next == IF ingredient = <<>> THEN acc
                     ELSE IF i <= Len(smiles_list)
                     THEN IF strip(smiles_list[i]) # <<>>
                          THEN DictSet(acc, ingredient,
                                       [primary_smiles |-> strip(smiles_list[i])])
                          ELSE acc
                     ELSE DictSet(acc, ingredient, <<>>)
         IN parse_ingredients(names, smiles_list, i + 1, next)

\* the medicine from_csv builds from one row
from_csv_row(row) ==
    [product_name |-> read_cell(row.product_name),
     benefits |-> split_cells(read_cell(row.benefits)),
     diseases |-> split_cells(read_cell(row.diseases)),
     chemical_composition |->
         [ingredients |-> parse_ingredients(split(read_cell(row.ingredients), ";"),
                                            split(read_cell(row.smiles), ";"), 1, <<>>)]]

\* DataImporter.from_csv: a missing file, and a file without rows, make
\* read_csv raise, which is logged and gives []
from_csv(f) ==
    IF f.exists THEN [i \in 1..Len(f.text) |-> from_csv_row(f.text[i])] ELSE <<>>

\* DataExporter.to_csv(medicines, path)
ToCsv(medicines) ==
    /\ Idle
    /\ call' = [op |-> "to_csv", arg |-> medicines, pre |-> data]
    /\ LET r == to_csv(medicines)
       IN /\ ret' = Returned(r.ok)
          /\ file' = IF r.ok
                     THEN [exists |-> TRUE, ext |-> ".csv", text |-> r.rows, saved |-> medicines]
                     ELSE file
    /\ UNCHANGED <<impl, pc, doc, data, proc>>

\* DataImporter.from_csv(path)
FromCsv ==
    /\ Idle
    /\ call' = [op |-> "from_csv", pre |-> data]
    /\ ret' = Returned(from_csv(file))
    /\ UNCHANGED <<impl, pc, doc, data, file, proc>>

InitCsv == Init /\ impl = "Embedded" /\ doc = CorruptDoc

NextCsv ==
    \/ Embedded_init
    \/ ReturnToCaller
    \/ \E l \in CsvLists : ToCsv(l)
    \/ FromCsv

SpecCsv == InitCsv /\ [][NextCsv]_vars

(***************************************************************************)
(* The chemical summary: analyze_chemical_structures of tradchem.py and   *)
(* of the embedded class.  rejected is the set of SMILES strings for      *)
(* which the chemistry collaborator (validate_smiles) answers False.      *)
(***************************************************************************)
\* an ingredient that declares a molecular weight and no SMILES string
Eugenol == [name |-> <<"c">>, detail |-> [molecular_weight |-> 4]]

Clove == [product_name |-> <<"c">>,
          benefits |-> << <<"a">> >>,
          diseases |-> <<>>,
          chemical_composition |-> [ingredients |-> <<Eugenol, Piperine>>]]

ChemPool == {Turmeric, Ginger, Trikatu, Clove, Without(Turmeric, {"chemical_composition"})}

ChemLists == SeqsUpTo(ChemPool, MaxRecords)

\* the items of the ingredients mappings of the records, in the order of the loops
all_ingredients(medicines) ==
    Flatten([i \in 1..Len(medicines) |-> ingredients_of(medicines[i])])

\* analysis_results['smiles_validation'][ingredient_name] = smiles, for every
\* item of invalid in turn
smiles_validation(invalid) ==
    [n \in {invalid[i].name : i \in 1..Len(invalid)} |->
        LET last == CHOOSE i \in 1..Len(invalid) :
                        /\ invalid[i].name = n
                        /\ \A j \in (i + 1)..Len(invalid) : invalid[j].name # n
        IN invalid[last].detail.smiles]

\* TradChem.analyze_chemical_structures: only the ingredients with a smiles
\* key are counted.  For the first one that validate_smiles accepts, the
\* method calls smiles_utils.calculate_molecular_properties, a name that
\* smiles_utils does not define (it defines get_molecular_properties), and
\* the AttributeError leaves the method.  The declared molecular_weight of
\* an ingredient is not read.
analyze_chemical_structures(medicines, rejected) ==
    LET compounds == SelectSeq(all_ingredients(medicines),
                               LAMBDA g : "smiles" \in DOMAIN g.detail)
        invalid == SelectSeq(compounds, LAMBDA g : g.detail.smiles \in rejected)
    IN IF Len(invalid) < Len(compounds) THEN Raised("AttributeError")
       ELSE Returned([total_compounds |-> Len(compounds),
                      valid_smiles |-> 0,
                      invalid_smiles |-> Len(invalid),
                      avg_molecular_weight |-> [num |-> 0, den |-> 1],
                      unique_formulas |-> 0,
                      molecular_properties |-> <<>>,
                      chemical_families |-> <<>>,
                      smiles_validation |-> smiles_validation(invalid)])

AnalyzeChemicalStructures(medicines, rejected) ==
    /\ impl = "TradChem" /\ Idle
    /\ call' = [op |-> "analyze_chemical_structures", arg |-> medicines,
                rejected |-> rejected, pre |-> data]
    /\ ret' = analyze_chemical_structures(medicines, rejected)
    /\ UNCHANGED <<impl, pc, doc, data, file, proc>>

\* the embedded TradChem.analyze_chemical_structures: every ingredient is a
\* compound, one with a smiles key is valid, and the sum of the declared
\* weights is divided by the number of compounds
Embedded_analyze_chemical_structures(medicines) ==
    LET compounds == all_ingredients(medicines)
        n == Len(compounds)
        with(key) == SelectSeq(compounds, LAMBDA g : key \in DOMAIN g.detail)
        weights == [i \in 1..Len(with("molecular_weight")) |->
                       with("molecular_weight")[i].detail.molecular_weight]
        formulas == {with("formula")[i].detail.formula : i \in 1..Len(with("formula"))}
    IN [total_compounds |-> n,
        valid_smiles |-> Len(with("smiles")),
        invalid_smiles |-> n - Len(with("smiles")),
        avg_molecular_weight |-> IF n > 0 THEN [num |-> SumSeq(weights), den |-> n]
                                 ELSE [num |-> 0, den |-> 1],
        unique_formulas |-> Cardinality(formulas)]

Embedded_AnalyzeChemicalStructures(medicines) ==
    /\ impl = "Embedded" /\ Idle
    /\ call' = [op |-> "analyze_chemical_structures", arg |-> medicines,
                rejected |-> {}, pre |-> data]
    /\ ret' = Returned(Embedded_analyze_chemical_structures(medicines))
    /\ UNCHANGED <<impl, pc, doc, data, file, proc>>

(***************************************************************************)
(* The chemical summary of every list of ChemLists.                       *)
(***************************************************************************)
InitChem == Init /\ impl \in {"TradChem", "Embedded"} /\ doc = CorruptDoc

NextChem ==
    \/ TradChem_init
    \/ Embedded_init
    \/ ReturnToCaller
    \/ \E l \in ChemLists, rejected \in SUBSET SmilesPool : AnalyzeChemicalStructures(l, rejected)
    \/ \E l \in ChemLists : Embedded_AnalyzeChemicalStructures(l)

SpecChem == InitChem /\ [][NextChem]_vars

(***************************************************************************)
(* The analyses over a list given as argument: statistical_analysis,      *)
(* benefit_analysis and pattern_analysis (tradchem.py).                   *)
(***************************************************************************)
\* a record that lists a benefit and a disease twice
Repeated == [product_name |-> <<"B", "b">>,
             benefits |-> << <<"a", "B">>, <<"a", "B">> >>,
             diseases |-> << <<"b">>, <<"b">> >>,
             chemical_composition |-> [ingredients |-> <<Piperine, Curcumin>>],
             traditional_system |-> <<"A">>]

\* a record with four ingredients
Chyawanprash == [product_name |-> <<"c", "a">>,
                 benefits |-> << <<"b">> >>,
                 diseases |-> << <<"b">> >>,
                 chemical_composition |->
                     [ingredients |-> <<Eugenol, Piperine, Gingerol, Curcumin>>]]

AnalysisPool == {Turmeric, Ginger, Trikatu, Repeated, Chyawanprash,
                 Without(Ginger, {"benefits"})}

AnalysisLists == SeqsUpTo(AnalysisPool, MaxRecords)

\* tc.statistical_analysis(medicines)
StatisticalAnalysis(medicines) ==
    /\ impl = "TradChem" /\ Idle
    /\ call' = [op |-> "statistical_analysis", arg |-> medicines, pre |-> data]
    /\ ret' = Returned(statistical_analysis(medicines))
    /\ UNCHANGED <<impl, pc, doc, data, file, proc>>

\* TradChem.benefit_analysis: one increment for every item of every benefits
\* list, overall, by traditional_system and by geographic_origin
benefit_analysis(medicines) ==
    LET n == Len(medicines)
        benefits(i) == Get(medicines[i], "benefits", <<>>)
        all_benefits == Flatten([i \in 1..n |-> benefits(i)])
        listed == {i \in 1..n : benefits(i) # <<>>}
        by(field) ==
            [v \in {Get(medicines[i], field, Unknown) : i \in listed} |->
                Counter(Flatten([i \in 1..n |->
                    IF Get(medicines[i], field, Unknown) = v THEN benefits(i) ELSE <<>>]))]
    IN [unique_benefits |-> {all_benefits[k] : k \in 1..Len(all_benefits)},
        benefit_frequency |-> Counter(all_benefits),
        benefit_by_system |-> by("traditional_system"),
        benefit_by_region |-> by("geographic_origin")]

BenefitAnalysis(medicines) ==
    /\ impl = "TradChem" /\ Idle
    /\ call' = [op |-> "benefit_analysis", arg |-> medicines, pre |-> data]
    /\ ret' = Returned(benefit_analysis(medicines))
    /\ UNCHANGED <<impl, pc, doc, data, file, proc>>

\* x put into the ascending list of strings l
RECURSIVE InsertName(_, _)
InsertName(l, x) ==
    IF l = <<>> THEN <<x>>
    ELSE IF StrLess(x, Head(l)) THEN <<x>> \o l
    ELSE <<Head(l)>> \o InsertName(Tail(l), x)

\* ingredients.sort()
RECURSIVE sort_names(_)
sort_names(l) == IF l = <<>> THEN <<>> ELSE InsertName(sort_names(Tail(l)), Head(l))

\* ' + '.join(ingredients[:3]) of the sorted names
combination_key(medicine) ==
    LET ingredients == [i \in 1..Len(ingredients_of(medicine)) |->
                           ingredients_of(medicine)[i].name]
    IN join(<<" ", "+", " ">>, Take(sort_names(ingredients), 3))

\* the items of ingredient_combinations, in the order the keys were first added
combination_items(keys) ==
    LET idx == [i \in 1..Len(keys) |-> i]
        first == SelectSeq(idx, LAMBDA i : \A j \in 1..(i - 1) : keys[j] # keys[i])
    IN [k \in 1..Len(first) |-> [key |-> keys[first[k]], count |-> Count(keys, keys[first[k]])]]

\* x put behind the items of l that count at least as much
RECURSIVE InsertByCount(_, _)
InsertByCount(l, x) ==
    IF l = <<>> THEN <<x>>
    ELSE IF Head(l).count < x.count THEN <<x>> \o l
    ELSE <<Head(l)>> \o InsertByCount(Tail(l), x)

\* sorted(items, key=lambda x: x[1], reverse=True)
RECURSIVE sorted_by_count(_)
sorted_by_count(items) ==
    IF items = <<>> THEN <<>>
    ELSE InsertByCount(sorted_by_count(SubSeq(items, 1, Len(items) - 1)), items[Len(items)])

\* TradChem.pattern_analysis: only a record with two ingredients or more is
\* tallied
pattern_analysis(medicines) ==
    LET tallied == SelectSeq(medicines, LAMBDA m : Len(ingredients_of(m)) >= 2)
        keys == [i \in 1..Len(tallied) |-> combination_key(tallied[i])]
    IN [patterns |-> <<>>,
        common_combinations |-> Take(sorted_by_count(combination_items(keys)), 10),
        trends |-> <<>>]

PatternAnalysis(medicines) ==
    /\ impl = "TradChem" /\ Idle
    /\ call' = [op |-> "pattern_analysis", arg |-> medicines, pre |-> data]
    /\ ret' = Returned(pattern_analysis(medicines))
    /\ UNCHANGED <<impl, pc, doc, data, file, proc>>

(***************************************************************************)
(* The analyses of every list of AnalysisLists.                           *)
(***************************************************************************)
InitAnalysis == Init /\ impl = "TradChem" /\ doc = CorruptDoc

NextAnalysis ==
    \/ TradChem_init
    \/ ReturnToCaller
    \/ \E l \in AnalysisLists : StatisticalAnalysis(l)
    \/ \E l \in AnalysisLists : BenefitAnalysis(l)
    \/ \E l \in AnalysisLists : PatternAnalysis(l)

SpecAnalysis == InitAnalysis /\ [][NextAnalysis]_vars

(***************************************************************************)
(* Two processes on one backing document.  Each constructs its catalog    *)
(* object, adds a record and writes its list to the document; the steps   *)
(* of the two interleave freely, and no step takes a lock.                 *)
(***************************************************************************)
\* self.data = self.load_database() in process p
Proc_init(p) ==
    /\ impl \in {"TradChem", "Embedded"}
    /\ proc[p].pc = "Unloaded"
    /\ LET r == IF impl = "TradChem" THEN load_database(doc)
                ELSE [raised |-> "none"] @@ Embedded_load_database(doc)
       IN proc' = [proc EXCEPT ![p].pc = IF r.raised # "none" THEN "Raised"
                                         ELSE IF r.failed THEN "LoadFailed" ELSE "Loaded",
                               ![p].data = r.val]
    /\ UNCHANGED <<impl, pc, doc, data, file, call, ret>>

\* add_medicine(medicine_entry) in process p: the embedded class appends to
\* its list, the class of tradchem.py only returns True
Proc_add_medicine(p, medicine_entry) ==
    /\ proc[p].pc \in {"Loaded", "LoadFailed"}
    /\ proc' = [proc EXCEPT ![p].pc = "Added",
                            ![p].arg = medicine_entry,
                            ![p].add = Returned(TRUE),
                            ![p].data = IF impl = "Embedded" THEN Append(@, medicine_entry)
                                        ELSE @]
    /\ UNCHANGED <<impl, pc, doc, data, file, call, ret>>

\* the document as json.load reads it
document_records(d) == Embedded_load_database(d).val

\* a write that reads the document again and adds to it what the list of the
\* process has more
Proc_export_data_merged(p, io_ok) ==
    /\ proc[p].pc = "Added"
    /\ LET current == document_records(doc)
           more == SelectSeq(proc[p].data,
                             LAMBDA r : \A i \in 1..Len(current) : current[i] # r)
       IN IF io_ok
          THEN /\ doc' = [doc EXCEPT !.exists = TRUE, !.text = json_dump(current \o more)]
               /\ proc' = [proc EXCEPT ![p].pc = "Written", ![p].export = Returned(TRUE)]
          ELSE /\ doc' = doc
               /\ proc' = [proc EXCEPT ![p].pc = "Written", ![p].export = Returned(FALSE)]
    /\ UNCHANGED <<impl, pc, data, file, call, ret>>

\* export_data(self.data, self.database_path) in process p: the file is
\* opened with 'w' and the list of the process is dumped into it
Proc_export_data(p, io_ok) ==
    /\ proc[p].pc = "Added"
    /\ IF io_ok
       THEN /\ doc' = [doc EXCEPT !.exists = TRUE, !.text = json_dump(proc[p].data)]
            /\ proc' = [proc EXCEPT ![p].pc = "Written", ![p].export = Returned(TRUE)]
       ELSE /\ doc' = doc
            /\ proc' = [proc EXCEPT ![p].pc = "Written", ![p].export = Returned(FALSE)]
    /\ UNCHANGED <<impl, pc, data, file, call, ret>>

InitRace == Init /\ impl \in {"TradChem", "Embedded"}

NextRace ==
    \/ \E p \in Procs : Proc_init(p)
    \/ \E p \in Procs, r \in RecordPool : Proc_add_medicine(p, r)
    \/ \E p \in Procs, io_ok \in BOOLEAN : Proc_export_data(p, io_ok)

SpecRace == InitRace /\ [][NextRace]_vars

(***************************************************************************)
(* Properties.                                                             *)
(***************************************************************************)
RequiredFields == {"product_name", "benefits", "diseases", "chemical_composition"}

\* validate_medicine_data(r)["valid"] for records whose fields have the
\* required types
ValidRecord(r) == RequiredFields \subseteq DOMAIN r

\* the product_name of r is the product_name of an entry of d
NameTaken(d, r) == \E i \in 1..Len(d) : d[i].product_name = r.product_name

\* C1: add(record) returns false and leaves the record list unchanged when
\* the record fails validation or its product_name is already in the catalog.
C1_AddRejects ==
    (call.op = "add" /\ (~ValidRecord(call.arg) \/ NameTaken(call.pre, call.arg)))
        => (ret.val = FALSE /\ data = call.pre)

\* C2: add(record) of a valid record with a new product_name returns true,
\* makes the catalog one longer with the record last, and list_names() then
\* contains the name.
C2_AddAppends ==
    (call.op = "add" /\ ValidRecord(call.arg) /\ ~NameTaken(call.pre, call.arg))
        => /\ ret.val = TRUE
           /\ Len(data) = Len(call.pre) + 1
           /\ data[Len(data)] = call.arg
           /\ \E i \in 1..Len(data) : list_medicines(data)[i] = call.arg.product_name

IsPrefix(a, b) == Len(a) <= Len(b) /\ SubSeq(b, 1, Len(a)) = a

\* C3: once the store is constructed, every operation leaves the records of
\* the catalog in place (the list before is a prefix of the list after), and
\* only add makes the list longer.
C3_AppendOnly ==
    [][Constructed => /\ IsPrefix(data, data')
                      /\ (data' # data => call'.op = "add")]_vars

\* C3 witness: sort_data returned a reordering of a catalog that stayed as it was
C3_Witness ==
    /\ call.op = "sort" /\ data = call.pre
    /\ Len(data) >= 2 /\ ret.val # data

\* C4: constructing the store never raises; a missing or undecodable
\* document leaves the store in LoadFailed with an empty record list.
C4_LoadNeverRaises ==
    (call.op = "init" /\ (~doc.exists \/ (doc.ext = ".json" /\ ~json_load(doc.text).ok)))
        => (pc = "LoadFailed" /\ data = <<>> /\ ret.raised = "none")

\* C5: loading back the JSON document that export_data wrote gives the
\* records that were saved, field for field and in the same order, the
\* empty list included.
C5_RoundTrip ==
    (call.op = "load_data" /\ file.exists)
        => (ret.raised = "none" /\ ret.val = file.saved)

\* C5 witness: a list with a record whose strings need escaping was written
\* and read back
C5_Witness ==
    /\ call.op = "load_data" /\ file.exists
    /\ Len(file.saved) >= 2
    /\ \E i \in 1..Len(file.saved) : file.saved[i] = Ginger

HasIds(r) == "entry_id" \in DOMAIN r /\ "date_added" \in DOMAIN r

\* C6: after a successful add the added record is in the catalog with an
\* entry_id and a date_added, and its entry_id is greater than the entry_id
\* of every earlier record.
C6_AddAssignsIds ==
    (call.op = "add" /\ ret.val = TRUE)
        => /\ data # <<>>
           /\ data[Len(data)].product_name = call.arg.product_name
           /\ HasIds(data[Len(data)])
           /\ \A j \in 1..(Len(data) - 1) :
                  HasIds(data[j]) => StrLess(data[j].entry_id, data[Len(data)].entry_id)

\* b occurs in a as a contiguous substring
Occurs(b, a) == \E i \in 0..(Len(a) - Len(b)) : SubSeq(a, i + 1, i + Len(b)) = b

\* query occurs, ignoring case, in the chosen field of record m
FieldContains(m, query, field) ==
    LET q == lower(query)
        anyOf(l) == \E i \in 1..Len(l) : Occurs(q, lower(l[i]))
    IN CASE field = "name" ->
                "product_name" \in DOMAIN m /\ Occurs(q, lower(m.product_name))
         [] field = "benefit" -> "benefits" \in DOMAIN m /\ anyOf(m.benefits)
         [] field = "disease" -> "diseases" \in DOMAIN m /\ anyOf(m.diseases)
         [] field = "ingredient" ->
                /\ "chemical_composition" \in DOMAIN m
                /\ "ingredients" \in DOMAIN m.chemical_composition
                /\ \E i \in 1..Len(m.chemical_composition.ingredients) :
                       Occurs(q, lower(m.chemical_composition.ingredients[i].name))
         [] OTHER -> FALSE

FieldEnum == {"name", "benefit", "disease", "ingredient"}

\* C7: search(query, field) returns exactly the catalog records in which
\* query occurs, ignoring case, in the chosen field (here with the default
\* limit, which no catalog of the model reaches).
C7_SearchExact ==
    (call.op = "search" /\ call.search_type \in FieldEnum /\ ~call.limit.given)
        => ret.val = SelectSeq(call.pre,
                               LAMBDA m : FieldContains(m, call.query, call.search_type))

\* C8: search with limit n returns the first min(n, k) records of the
\* search without a limit.
C8_LimitIsPrefix ==
    /\ (call.op = "search" /\ call.limit.given)
        => ret.val = Take(class_search(call.query, call.search_type, Len(data) + 1),
                          call.limit.n)
    /\ (call.op = "handle_search" /\ call.limit.given)
        => ret.val = Take(handle_search(call.query, call.search_type,
                                        [given |-> FALSE, n |-> 0]),
                          call.limit.n)

EffLimit(l) == IF l.given THEN l.n ELSE DefaultLimit

\* every element of a is an element of b
SubsetSeq(a, b) == \A i \in 1..Len(a) : \E j \in 1..Len(b) : b[j] = a[i]

\* C9 as stated: for the same catalog, field and limit, if B is a substring
\* of A then every record of search(A) is a record of search(B).
C9_Monotone ==
    call.op = "search"
        => \A B \in Queries :
               Occurs(B, call.query)
                   => SubsetSeq(ret.val,
                                class_search(B, call.search_type, EffLimit(call.limit)))

\* C9 amended: the same, provided search(B) returns fewer records than the
\* limit, so that its result is not cut off.
C9_MonotoneUntruncated ==
    call.op = "search"
        => \A B \in Queries :
               LET resB == class_search(B, call.search_type, EffLimit(call.limit))
               IN (Occurs(B, call.query) /\ Len(resB) < EffLimit(call.limit))
                      => SubsetSeq(ret.val, resB)

\* C9 witness: a search that found records, and a shorter query that found more
C9_Witness ==
    /\ call.op = "search" /\ ret.val # <<>>
    /\ \E B \in Queries :
           LET resB == class_search(B, call.search_type, EffLimit(call.limit))
           IN /\ Occurs(B, call.query) /\ B # call.query
              /\ Len(resB) < EffLimit(call.limit)
              /\ Len(resB) > Len(ret.val)

\* C10: search, filter and sort signal InvalidArgument for a field or key
\* outside their enumerations.
C10_InvalidArgument ==
    /\ (call.op = "search" /\ call.search_type \notin FieldEnum)
        => ret.raised = "InvalidArgument"
    /\ (call.op = "sort" /\ call.by \notin {"name", "system", "region", "molecular_weight"})
        => ret.raised = "InvalidArgument"
    /\ (call.op = "filter"
          /\ \E i \in 1..Len(call.filters) :
                 call.filters[i][1] \notin {"system", "region", "benefit", "disease", "ingredient"})
        => ret.raised = "InvalidArgument"

\* C11: filtering by two criteria at once gives the same list as filtering by
\* one and then filtering the result by the other, in either order.
C11_FilterComposes ==
    (call.op = "filter" /\ Len(call.filters) = 2)
        => LET c1 == <<call.filters[1]>>
               c2 == <<call.filters[2]>>
           IN /\ ret.val = filter_data(filter_data(call.pre, c1), c2)
              /\ ret.val = filter_data(filter_data(call.pre, c2), c1)

\* C11 witness: two criteria that each keep a different part of the list, and
\* together keep a non-empty list shorter than either
C11_Witness ==
    /\ call.op = "filter" /\ Len(call.filters) = 2
    /\ LET r1 == filter_data(call.pre, <<call.filters[1]>>)
           r2 == filter_data(call.pre, <<call.filters[2]>>)
       IN /\ r1 # r2
          /\ ret.val # <<>>
          /\ Len(ret.val) < Len(r1) /\ Len(ret.val) < Len(r2)

FilterEnum == {"system", "region", "benefit", "disease", "ingredient"}

\* record m satisfies the criterion <<key, value>>, letter case ignored
Satisfies(m, c) ==
    LET v == lower(c[2])
        anyOf(l) == \E i \in 1..Len(l) : Occurs(v, lower(l[i]))
    IN CASE c[1] = "system" ->
                "traditional_system" \in DOMAIN m /\ lower(m.traditional_system) = v
         [] c[1] = "region" ->
                "geographic_origin" \in DOMAIN m /\ lower(m.geographic_origin) = v
         [] c[1] = "benefit" -> "benefits" \in DOMAIN m /\ anyOf(m.benefits)
         [] c[1] = "disease" -> "diseases" \in DOMAIN m /\ anyOf(m.diseases)
         [] c[1] = "ingredient" ->
                /\ "chemical_composition" \in DOMAIN m
                /\ "ingredients" \in DOMAIN m.chemical_composition
                /\ \E i \in 1..Len(m.chemical_composition.ingredients) :
                       Occurs(v, lower(m.chemical_composition.ingredients[i].name))
         [] OTHER -> FALSE

\* C12: filter returns, in input order, exactly the records that satisfy
\* every criterion: the whole traditional_system / geographic_origin equal to
\* the value for system / region, the value occurring in at least one
\* benefit, disease or ingredient name for the other keys, letter case
\* ignored as in search; with no criterion it returns the input.
C12_FilterExact ==
    (call.op = "filter" /\ \A i \in 1..Len(call.filters) : call.filters[i][1] \in FilterEnum)
        => ret.val = SelectSeq(call.pre,
                               LAMBDA m : \A i \in 1..Len(call.filters) :
                                              Satisfies(m, call.filters[i]))

\* C12 witness: a system criterion written in upper case kept some records
\* of the list and dropped others
C12_Witness ==
    /\ call.op = "filter"
    /\ \E i \in 1..Len(call.filters) : call.filters[i] = <<"system", <<"B">> >>
    /\ \A i \in 1..Len(call.filters) : call.filters[i][1] \in FilterEnum
    /\ ret.val # <<>>
    /\ Len(ret.val) < Len(call.pre)

SortEnum == {"name", "system", "region", "molecular_weight"}

\* x and y have equal sort keys
KeyEq(by, x, y) == ~KeyLess(by, x, y) /\ ~KeyLess(by, y, x)

\* C13: sort keeps the records with equal sort keys in the order they had in
\* the input, with reverse unset and with reverse set, and sorting its own
\* result again by the same key and flag returns that result.
C13_SortStable ==
    (call.op = "sort" /\ call.by \in SortEnum)
        => /\ \A k \in 1..Len(call.pre) :
                  SelectSeq(ret.val, LAMBDA y : KeyEq(call.by, y, call.pre[k]))
                      = SelectSeq(call.pre, LAMBDA y : KeyEq(call.by, y, call.pre[k]))
           /\ sort_data(ret.val, call.by, call.reverse) = ret.val

\* C13 witness: a reverse sort that moved records, of a list holding two
\* different records with equal keys
C13_Witness ==
    /\ call.op = "sort" /\ call.by \in SortEnum /\ call.reverse
    /\ ret.val # call.pre
    /\ \E i, j \in 1..Len(call.pre) :
           /\ i < j /\ call.pre[i] # call.pre[j]
           /\ KeyEq(call.by, call.pre[i], call.pre[j])

\* the ingredients of r that declare a molecular_weight
WithWeight(r) ==
    IF "chemical_composition" \in DOMAIN r /\ "ingredients" \in DOMAIN r.chemical_composition
    THEN SelectSeq(r.chemical_composition.ingredients,
                   LAMBDA g : "molecular_weight" \in DOMAIN g.detail)
    ELSE <<>>

\* the sum and the number of the declared weights of r
WeightSum(r) == SumSeq([i \in 1..Len(WithWeight(r)) |-> WithWeight(r)[i].detail.molecular_weight])
WeightCount(r) == Len(WithWeight(r))

\* the field of r that sort key by names, the empty string when r lacks it
KeyField(by, r) ==
    LET f == CASE by = "name" -> "product_name"
               [] by = "system" -> "traditional_system"
               [] OTHER -> "geographic_origin"
    IN IF f \in DOMAIN r THEN r[f] ELSE <<>>

\* the sort key of x is strictly smaller than the sort key of y: the strings
\* compared lexicographically, the mean weights (0 when none is declared)
\* compared as fractions
Before(by, x, y) ==
    IF by = "molecular_weight"
    THEN IF WeightCount(x) = 0 THEN WeightCount(y) > 0 /\ WeightSum(y) > 0
         ELSE IF WeightCount(y) = 0 THEN WeightSum(x) < 0
         ELSE WeightSum(x) * WeightCount(y) < WeightSum(y) * WeightCount(x)
    ELSE StrLess(KeyField(by, x), KeyField(by, y))

\* C14: sort returns the records of its input, each as often as in the
\* input, in non-decreasing order of the key (non-increasing when reverse):
\* the product_name / traditional_system / geographic_origin with a missing
\* field as the empty string, or the mean molecular_weight of the ingredients
\* that declare one, 0 when none does.
C14_SortOrdered ==
    (call.op = "sort" /\ call.by \in SortEnum)
        => /\ Len(ret.val) = Len(call.pre)
           /\ \A x \in RecordPool : Count(ret.val, x) = Count(call.pre, x)
           /\ \A i, j \in 1..Len(ret.val) :
                  i < j => IF call.reverse
                           THEN ~Before(call.by, ret.val[i], ret.val[j])
                           ELSE ~Before(call.by, ret.val[j], ret.val[i])

\* C14 witness: a reverse sort by mean molecular weight that moved a record
\* without a declared weight behind a record with one
C14_Witness ==
    /\ call.op = "sort" /\ call.by = "molecular_weight" /\ call.reverse
    /\ ret.val # call.pre
    /\ Len(ret.val) >= 2
    /\ Before("molecular_weight", ret.val[Len(ret.val)], ret.val[1])
    /\ WeightCount(ret.val[Len(ret.val)]) = 0

RECURSIVE SumOver(_, _)
\* the sum of f over the keys in S
SumOver(f, S) ==
    IF S = {} THEN 0
    ELSE LET k == CHOOSE x \in S : TRUE IN f[k] + SumOver(f, S \ {k})

\* C15: for every record list, the empty one and lists with records without
\* a traditional_system included, the counts of system_distribution add up
\* to the number of records.
C15_DistributionSums ==
    call.op = "statistics"
        => /\ "system_distribution" \in DOMAIN ret.val
           /\ SumOver(ret.val.system_distribution, DOMAIN ret.val.system_distribution)
                  = Len(call.pre)

\* the number of benefits of all records of l
TotalBenefits(l) ==
    SumSeq([i \in 1..Len(l) |-> IF "benefits" \in DOMAIN l[i] THEN Len(l[i].benefits) ELSE 0])

\* C16: statistics reports a total equal to the number of records and an
\* average number of benefits equal to the number of benefits of all records
\* divided by the total, and 0 for the empty list.
C16_AvgBenefits ==
    call.op = "statistics"
        => /\ "total_medicines" \in DOMAIN ret.val
           /\ ret.val.total_medicines = Len(call.pre)
           /\ "avg_benefits_per_medicine" \in DOMAIN ret.val
           /\ IF call.pre = <<>> THEN ret.val.avg_benefits_per_medicine.num = 0
              ELSE ret.val.avg_benefits_per_medicine.num * Len(call.pre)
                       = TotalBenefits(call.pre) * ret.val.avg_benefits_per_medicine.den

\* the required fields that the argument x of a validation lacks
Missing(x) == RequiredFields \ DOMAIN x.rec

\* every value that x has is of the type the schema gives it
SchemaTyped(x) ==
    /\ \A f \in RequiredFields \cap DOMAIN x.rec : x.pytype[f] = SchemaTypes[f]
    /\ ("chemical_composition" \in DOMAIN x.rec
          /\ "ingredients" \in DOMAIN x.rec.chemical_composition)
           => x.pytype.ingredients = "dict"

C18_ValidateNeverRaises ==
    call.op = "validate"
        => /\ ret.raised = "none"
           /\ ~SchemaTyped(call.arg)
                  => /\ ret.val.valid = FALSE
                     /\ \E i \in 1..Len(ret.val.errors) : ret.val.errors[i].kind = "type"

\* the ingredients of x whose SMILES string is in the set rejected
RejectedIngredients(x, rejected) ==
    IF "ingredients" \in DOMAIN x.rec.chemical_composition
    THEN SelectSeq(x.rec.chemical_composition.ingredients,
                   LAMBDA g : "smiles" \in DOMAIN g.detail /\ g.detail.smiles \in rejected)
    ELSE <<>>

\* C19: for a record with the four required fields and values of the
\* schema's types, validate returns valid = true and no error, whichever
\* SMILES strings the chemistry library rejects; each ingredient with a
\* rejected SMILES string gets one warning that names it.
C19_WarningsKeepValid ==
    (call.op = "validate" /\ SchemaTyped(call.arg) /\ Missing(call.arg) = {})
        => /\ ret.raised = "none"
           /\ ret.val.valid = TRUE
           /\ Len(ret.val.errors) = 0
           /\ LET bad == RejectedIngredients(call.arg, call.rejected)
              IN /\ Len(ret.val.warnings) = Len(bad)
                 /\ \A i \in 1..Len(bad) : ret.val.warnings[i].ingredient = bad[i].name

\* C19 witness: both SMILES strings of a complete record were rejected
C19_Witness ==
    /\ call.op = "validate" /\ SchemaTyped(call.arg) /\ Missing(call.arg) = {}
    /\ ret.raised = "none"
    /\ Len(ret.val.warnings) = 2

\* x has the four required fields, each of the required type
FullyValid(x) ==
    /\ Missing(x) = {}
    /\ \A f \in RequiredFields : x.pytype[f] = SchemaTypes[f]

\* C20: validate_data counts every record once: valid plus invalid is the
\* total, the total is the length of the list, a record is counted valid
\* exactly when it has the four required fields with the required types,
\* and data_quality_score is valid / total, 0 for the empty list.
C20_ValidateDataCounts ==
    call.op = "validate_data"
        => /\ ret.raised = "none"
           /\ LET n == Len(call.arg)
                  v == Cardinality({i \in 1..n : FullyValid(call.arg[i])})
              IN /\ ret.val.total_medicines = n
                 /\ ret.val.valid_medicines + ret.val.invalid_medicines = n
                 /\ ret.val.valid_medicines = v
                 /\ IF n = 0 THEN ret.val.data_quality_score.num = 0
                    ELSE ret.val.data_quality_score.num * n
                             = v * ret.val.data_quality_score.den

CleanOps == {"clean_data", "clean_medicine_data"}

\* C21: cleaning trims the product_name, turns a benefits / diseases value
\* given as one comma-delimited string into the list of its trimmed pieces,
\* returns a value that is already a list as it is, and leaves benefits and
\* diseases as lists whenever they are present.
C21_CleanNormalizes ==
    (call.op \in CleanOps /\ ret.raised = "none")
        => \A i \in 1..Len(call.arg) :
               LET x == call.arg[i]
                   y == ret.val[i]
               IN /\ y.rec.product_name = strip(x.rec.product_name)
                  /\ \A f \in {"benefits", "diseases"} \cap DOMAIN x.rec :
                         /\ f \in DOMAIN y.rec /\ y.pytype[f] = "list"
                         /\ x.pytype[f] = "str" => y.rec[f] = split_and_strip(x.rec[f])
                         /\ x.pytype[f] = "list" => y.rec[f] = x.rec[f]

\* C30: cleaning does not modify its argument: after the call every input
\* record, its nested ingredient entries included, has the value it had
\* before the call.
C30_CleanLeavesArgument ==
    call.op \in CleanOps => call.arg_after = call.arg

\* no benefit and no disease of the records of l holds the delimiter "; "
NoDelimiter(l) ==
    \A i \in 1..Len(l) : \A f \in {"benefits", "diseases"} \cap DOMAIN l[i] :
        \A k \in 1..Len(l[i][f]) : ~Occurs(<<";", " ">>, l[i][f][k])

\* C22: reading back the CSV document written from a record list without
\* the delimiter "; " in a benefit or disease gives, record by record, the
\* same benefits, diseases and ingredients (names and details, in order).
C22_CsvRoundTrip ==
    (call.op = "from_csv" /\ file.exists /\ NoDelimiter(file.saved))
        => /\ Len(ret.val) = Len(file.saved)
           /\ \A i \in 1..Len(file.saved) :
                  /\ ret.val[i].benefits = file.saved[i].benefits
                  /\ ret.val[i].diseases = file.saved[i].diseases
                  /\ ingredients_of(ret.val[i]) = ingredients_of(file.saved[i])

SupportedExtensions == {".csv", ".json", ".xlsx", ".xls"}
SupportedFormats == {"json", "csv", "html"}

\* C23: a load of a document with an unknown extension and an export with an
\* unknown format raise an unsupported-format error to the caller; neither
\* returns a value (an empty list, False) in its place.
C23_UnsupportedFormatRaised ==
    /\ (impl = "TradChem" /\ call.op = "init" /\ doc.exists
          /\ doc.ext \notin SupportedExtensions)
        => ret.raised = "ValueError"
    /\ (call.op = "export" /\ call.format \notin SupportedFormats)
        => ret.raised = "ValueError"

\* the number of the ingredients of the list whose SMILES string was rejected
RejectedCount(l, rejected) ==
    Len(SelectSeq(Flatten([i \in 1..Len(l) |-> ingredients_of(l[i])]),
                  LAMBDA g : "smiles" \in DOMAIN g.detail /\ g.detail.smiles \in rejected))

\* C24: the chemical summary returns a result for every record list and never
\* raises; every ingredient it counts is counted valid or invalid, and an
\* ingredient whose SMILES string the collaborator rejected is counted invalid.
C24_SummaryNeverRaises ==
    call.op = "analyze_chemical_structures"
        => /\ ret.raised = "none"
           /\ ret.val.valid_smiles + ret.val.invalid_smiles = ret.val.total_compounds
           /\ impl = "TradChem"
                => ret.val.invalid_smiles >= RejectedCount(call.arg, call.rejected)

\* the sum and the number of the molecular weights declared in the list
DeclaredSum(l) == SumSeq([i \in 1..Len(l) |-> WeightSum(l[i])])
DeclaredCount(l) == SumSeq([i \in 1..Len(l) |-> WeightCount(l[i])])

\* C28: the summary's avg_molecular_weight is the sum of the declared
\* molecular weights divided by the number of ingredients that declare one,
\* whatever the SMILES string of the ingredient is.
C28_AvgMolecularWeight ==
    (call.op = "analyze_chemical_structures" /\ DeclaredCount(call.arg) > 0)
        => /\ ret.raised = "none"
           /\ ret.val.avg_molecular_weight.num * DeclaredCount(call.arg)
                  = DeclaredSum(call.arg) * ret.val.avg_molecular_weight.den

\* the positions of the catalog whose product_name equals name ignoring case
NameHits(catalog, name) ==
    {i \in 1..Len(catalog) : lower(catalog[i].product_name) = lower(name)}

\* C25: find_by_exact_name(name) returns the first record of the catalog whose
\* product_name equals name ignoring case, and nothing when there is none (a
\* proper substring of a product_name finds nothing).
C25_FindByExactName ==
    call.op = "get_medicine_by_name"
        => LET catalog == IF impl = "Mock" THEN mock_medicines ELSE call.pre
               hits == NameHits(catalog, call.name)
           IN /\ ret.raised = "none"
              /\ IF hits = {} THEN ret.val = [found |-> FALSE]
                 ELSE ret.val = [found |-> TRUE,
                                 medicine |-> catalog[CHOOSE i \in hits :
                                                         \A j \in hits : i <= j]]

\* the strings of the field of the records of l, and the number of records
\* whose field contains s
StringsOf(l, field) ==
    UNION {{l[i][field][k] : k \in 1..Len(l[i][field])} :
              i \in {j \in 1..Len(l) : field \in DOMAIN l[j]}}
Containing(l, field, s) ==
    Cardinality({i \in 1..Len(l) : /\ field \in DOMAIN l[i]
                                   /\ \E k \in 1..Len(l[i][field]) : l[i][field][k] = s})

\* the frequency mapping holds the strings of the field, each with the
\* number of records that contain it
CountsRecords(frequency, l, field) ==
    /\ DOMAIN frequency = StringsOf(l, field)
    /\ \A s \in StringsOf(l, field) : frequency[s] = Containing(l, field, s)

\* C26: benefit_frequency[s] (disease_frequency[s]) is the number of records
\* whose benefits (diseases) list contains s, and a string that is in no
\* record is not a key of the mapping.
C26_FrequencyCountsRecords ==
    /\ (call.op = "statistical_analysis" /\ call.arg # <<>>)
        => /\ CountsRecords(ret.val.benefit_frequency, call.arg, "benefits")
           /\ CountsRecords(ret.val.disease_frequency, call.arg, "diseases")
    /\ call.op = "benefit_analysis"
        => CountsRecords(ret.val.benefit_frequency, call.arg, "benefits")

\* the keys of the records of l that have an ingredient, in list order
PatternKeys(l) ==
    LET with == SelectSeq(l, LAMBDA m : ingredients_of(m) # <<>>)
    IN [i \in 1..Len(with) |-> combination_key(with[i])]

\* the first position of key in keys
FirstSeen(keys, key) == CHOOSE i \in 1..Len(keys) : keys[i] = key /\ \A j \in 1..(i - 1) : keys[j] # key

\* C27: pattern_analysis tallies one key for every record (its sorted
\* ingredient names, the first three joined) and returns at most 10 keys with
\* their counts, in descending count order, equal counts in first-seen order.
C27_PatternTally ==
    call.op = "pattern_analysis"
        => LET keys == PatternKeys(call.arg)
               distinct == {keys[i] : i \in 1..Len(keys)}
               top == ret.val.common_combinations
           IN /\ Len(top) = (IF Cardinality(distinct) < 10 THEN Cardinality(distinct) ELSE 10)
              /\ \A i \in 1..Len(top) :
                     top[i].key \in distinct /\ top[i].count = Count(keys, top[i].key)
              /\ \A i, j \in 1..Len(top) :
                     i < j => \/ top[i].count > top[j].count
                              \/ /\ top[i].count = top[j].count
                                 /\ FirstSeen(keys, top[i].key) < FirstSeen(keys, top[j].key)

InList(l, r) == \E i \in 1..Len(l) : l[i] = r

\* both processes have added a record and written their list, every call
\* returned True, and the two records differ
BothWritten ==
    /\ \A p \in Procs : /\ proc[p].pc = "Written"
                        /\ proc[p].add.val = TRUE
                        /\ proc[p].export.val = TRUE
    /\ proc[1].arg # proc[2].arg

=============================================================================
